---- MODULE Spec2Model ----
(***************************************************************************)
(* doc-converter: asynchronous job dispatch and result correlation.        *)
(*                                                                         *)
(* Gateway (server/server.go): Run, conversionHandler, the close handler   *)
(* it installs, and listenForResults, sharing the registry `clients`       *)
(* under `clientsMutex`.  Worker (cmd/worker/main.go): the consume loop of *)
(* main and publishResults.  The broker is modelled by the durable job     *)
(* queue (manual ack, prefetch 1) and one exclusive auto-ack queue per     *)
(* gateway bound to the fanout exchange "results_fanout".                   *)
(***************************************************************************)
EXTENDS Integers, Sequences, FiniteSets, TLC

\* ---------------------------------------------------------------- bounds
MaxConns == 2

MaxCrashes == 1

\* Unparseable messages another publisher leaves on the job queue, and on
\* the results exchange.
MaxForeign == 1

\* Requests the download endpoint answers.
MaxRequests == 2

\* Runs of the convert command under one parent directory.
MaxRuns == 2

\* Seconds the wall clock advances through.
MaxTime == 2

\* Length of the strings SanitizeFilename is called with.
MaxLen == 3

\* ------------------------------------------------------------- processes
Gateways == {"g1", "g2"}

Workers == {"w1", "w2"}

Conns == 1..MaxConns

NoID == 0

IDs == 1..MaxConns

NoHolder == <<"none", 0>>

NoMsg == [kind |-> "none"]

\* ------------------------------------------------------- client messages
\* The first text frame a client sends: either bytes that are no JSON
\* object, or a JSON object {urls, selector}.
Malformed == [wellformed |-> FALSE, urls |-> <<>>, selector |-> ""]

ValidMsg == [wellformed |-> TRUE, urls |-> <<"a", "b">>, selector |-> "#x"]

EmptyUrlsMsg == [wellformed |-> TRUE, urls |-> <<>>, selector |-> "#x"]

EmptySelectorMsg == [wellformed |-> TRUE, urls |-> <<"a", "b">>, selector |-> ""]

\* Messages of the two-connection system.
BasicMessages == {Malformed, ValidMsg}

\* Messages of the single-connection system.
AllMessages == {Malformed, ValidMsg, EmptyUrlsMsg, EmptySelectorMsg}

NoReq == [URLs |-> <<>>, Selector |-> "-"]

\* json.Unmarshal(msg, &req) in conversionHandler: an error for bytes that
\* are no JSON, otherwise the two fields copied with no further validation.
UnmarshalRequest(msg) ==
    IF msg.wellformed
    THEN [err |-> FALSE, req |-> [URLs |-> msg.urls, Selector |-> msg.selector]]
    ELSE [err |-> TRUE, req |-> NoReq]

VARIABLES
    gwUp,           \* g -> Run has connected to the broker and serves HTTP
    rabbitMQClient, \* g -> "nil" | "connected": the client PublishJob goes through
    lstPc,          \* g -> position of listenForResults
    lstSummary,     \* g -> the Summary the listener is working on
    lstConn,        \* g -> the conn found by the registry lookup
    resultsQ,       \* g -> the gateway's exclusive queue on results_fanout
    clients,        \* g -> registry: downloadID -> connection
    clientsMutex,   \* g -> holder of the registry lock
    hPc,            \* c -> position of conversionHandler for connection c
    hGw,            \* c -> gateway instance that accepted c
    downloadID,     \* c -> id assigned by uuid.New()
    req,            \* c -> decoded ConversionRequest
    closeHandler,   \* c -> "unset" | "armed" | "locked" | "ran"
    clientClosed,   \* c -> the client has closed its end
    sent,           \* c -> frames the gateway wrote to c, in order
    usedIDs,        \* ids uuid.New() has returned so far
    jobQueue,       \* ready messages of the durable conversion queue
    wPc,            \* w -> position of the worker loop
    wBuffer,        \* w -> deliveries the broker pushed on msgs that the loop
                    \* has not read yet
    wDelivery,      \* w -> the unacknowledged delivery d held by w
    wSummary,       \* w -> summary produced by Convert
    crashes,        \* number of worker crashes so far
    everRegistered, \* history: <<gateway, id>> ever inserted into a registry
    enqueued,       \* history: ids of the jobs PublishJob put in the queue
    published,      \* history: ids whose Summary reached the exchange
    acked,          \* history: ids of acknowledged deliveries
    rejected,       \* history: ids of rejected deliveries
    lost,           \* history: ids whose claim was lost by a crash and
                    \* that have not been executed since
    foreignJobs,    \* number of unparseable messages published to the job queue
    foreignSummaries, \* number of unparseable messages published to results_fanout
    jobRejects,     \* history: w -> number of d.Reject(false) after a failed unmarshal
    skipped,        \* history: g -> number of Summaries the listener could not decode
    downloads,      \* id -> the artifact directory tmp/downloads/<id>
    responses,      \* the responses downloadHandler has written, in order
    now,            \* the wall clock, in seconds
    outDirs,        \* timestamp -> the run directory <output>/<timestamp>
    cliPc,          \* r -> position of run r of the convert command
    cliCfg,         \* r -> the file and selector settings of run r
    exitCodes,      \* r -> the codes run r passed to exitFunc
    outputDir,      \* r -> the timestamp naming the run directory of r
    urlsLeft,       \* r -> the URLs the loop of run r has not processed yet
    loaded,         \* r -> number of URLs run r loaded from its file
    successCount,   \* r -> successCount of runConvert
    errorCount,     \* r -> errorCount of runConvert
    fetches,        \* r -> number of http.Get calls of run r
    sanIn,          \* the string SanitizeFilename is called with
    sanOut,         \* the string it returned
    sanAgain,       \* what it returned when called with sanOut
    sanPc,          \* "idle" | "call" | "once" | "twice"
    sigs,           \* w -> signals waiting in the channel sigs of main
    mainPc          \* w -> position of the main goroutine of the worker

gwVars == <<gwUp, rabbitMQClient, lstPc, lstSummary, lstConn, resultsQ, clients, clientsMutex>>

connVars == <<hPc, hGw, downloadID, req, closeHandler, clientClosed, sent, usedIDs>>

workerVars == <<jobQueue, wPc, wBuffer, wDelivery, wSummary, crashes>>

histVars == <<everRegistered, enqueued, published, acked, rejected, lost>>

envVars == <<foreignJobs, foreignSummaries, jobRejects, skipped>>

dlVars == <<downloads, responses>>

cliVars == <<now, outDirs, cliPc, cliCfg, exitCodes, outputDir, urlsLeft, loaded,
             successCount, errorCount, fetches>>

fnVars == <<sanIn, sanOut, sanAgain, sanPc>>

sigVars == <<sigs, mainPc>>

localVars == <<dlVars, cliVars, fnVars, sigVars>>

vars == <<gwVars, connVars, workerVars, histVars, envVars, localVars>>

NoSummary == [DownloadID |-> NoID, TotalURLs |-> 0, Successful |-> 0, Failed |-> 0]

\* ------------------------------------------------------ artifact download
\* Names of the files a conversion leaves in an artifact directory.
FileNames == {"page.md"}

NoDir == [exists |-> FALSE, files |-> {}]

\* What follows /api/download/ in the path of a request: nothing, a job
\* id, or a job id followed by the name of a file.
NoPath == [id |-> NoID, file |-> ""]

RequestPaths == {NoPath} \cup [id : IDs, file : {""} \cup FileNames]

\* ---------------------------------------------------------- convert command
Runs == 1..MaxRuns

Times == 1..MaxTime

NoTime == 0

NoCfg == [file |-> "-", selector |-> "-"]

\* The values of the file setting: unset, a regular file, a directory, a
\* path at which nothing exists.
FileSettings == {"", "urls.txt", "in", "nofile"}

SelectorSettings == {"", "main"}

\* os.Stat of an input path.
StatInput(file) ==
    CASE file = "urls.txt" -> "file"
      [] file = "in" -> "dir"
      [] OTHER -> "absent"

\* The lines of urls.txt, split at the newlines: two URLs, a line of
\* blanks, a URL with leading blanks and the empty line after the last
\* newline.
InputLines == <<"a", " ", " b", "">>

\* bytes.TrimSpace of a line.
TrimSpace(line) ==
    CASE line = " " -> ""
      [] line = " b" -> "b"
      [] OTHER -> line

\* The loop over lines of runConvert: every line trimmed, the empty ones
\* skipped.
RECURSIVE LoadURLs(_)
LoadURLs(lines) ==
    IF lines = <<>> THEN <<>>
    ELSE LET url == TrimSpace(Head(lines))
         IN  (IF url # "" THEN <<url>> ELSE <<>>) \o LoadURLs(Tail(lines))

\* The text of the <title> element of the page at a URL, as characters.
PageTitle(url) ==
    CASE url = "a" -> <<"M", "y", " ", "D", "o", "c">>
      [] url = "b" -> <<"m", "y", "_", "d", "o", "c", "!">>
      [] OTHER -> <<>>

\* The last segment of a URL, as characters.
URLLastPart(url) == <<"p", "1">>

LowerOf(ch) ==
    CASE ch = "M" -> "m"
      [] ch = "D" -> "d"
      [] OTHER -> ch

\* strings.ToLower
ToLower(s) == [i \in 1..Len(s) |-> LowerOf(s[i])]

\* strings.ReplaceAll(s, " ", "_")
ReplaceSpaces(s) == [i \in 1..Len(s) |-> IF s[i] = " " THEN "_" ELSE s[i]]

FilenameChars == {"m", "y", "d", "o", "c", "p", "1", "_"}

IsFilenameChar(ch) == ch \in FilenameChars

\* Variant: the spaces are left to the removal of the other characters.
SanitizeFilename_SpacesRemoved(s) == SelectSeq(ToLower(s), IsFilenameChar)

\* SanitizeFilename: lower case, spaces to underscores, every run of other
\* characters removed.
SanitizeFilename(s) == SelectSeq(ReplaceSpaces(ToLower(s)), IsFilenameChar)

\* getSanitizedTitle: the page title, or the last part of the URL when the
\* page has none, sanitized.
getSanitizedTitle(url) ==
    SanitizeFilename(IF PageTitle(url) = <<>> THEN URLLastPart(url) ELSE PageTitle(url))

\* What happens to one URL in the loop of runConvert: converted and
\* written, or one of the five failures.
Outcomes == {"ok", "process_err", "get_err", "parse_err", "yaml_err", "write_err"}

\* SanitizeFilename has not been called.
NoSanitizeCall ==
    /\ sanIn = <<>>
    /\ sanOut = <<>>
    /\ sanAgain = <<>>
    /\ sanPc = "idle"

\* No artifact directory, no response, no run of the convert command yet;
\* the main goroutine of every worker waits for a signal.
InitLocal ==
    /\ downloads = [id \in IDs |-> NoDir]
    /\ responses = <<>>
    /\ now = 1
    /\ outDirs = [t \in Times |-> NoDir]
    /\ cliPc = [r \in Runs |-> "idle"]
    /\ cliCfg = [r \in Runs |-> NoCfg]
    /\ exitCodes = [r \in Runs |-> <<>>]
    /\ outputDir = [r \in Runs |-> NoTime]
    /\ urlsLeft = [r \in Runs |-> <<>>]
    /\ loaded = [r \in Runs |-> 0]
    /\ successCount = [r \in Runs |-> 0]
    /\ errorCount = [r \in Runs |-> 0]
    /\ fetches = [r \in Runs |-> 0]
    /\ sigs = [w \in Workers |-> 0]
    /\ mainPc = [w \in Workers |-> "sigwait"]

\* State of the broker, the workers and the connections when nothing has
\* been submitted, and the empty registry and idle listener variables of a
\* gateway.
InitRest ==
    /\ lstSummary = [g \in Gateways |-> NoSummary]
    /\ lstConn = [g \in Gateways |-> 0]
    /\ resultsQ = [g \in Gateways |-> <<>>]
    /\ clients = [g \in Gateways |-> [i \in IDs |-> 0]]
    /\ clientsMutex = [g \in Gateways |-> NoHolder]
    /\ hPc = [c \in Conns |-> "none"]
    /\ hGw = [c \in Conns |-> "g1"]
    /\ downloadID = [c \in Conns |-> NoID]
    /\ req = [c \in Conns |-> NoReq]
    /\ closeHandler = [c \in Conns |-> "unset"]
    /\ clientClosed = [c \in Conns |-> FALSE]
    /\ sent = [c \in Conns |-> <<>>]
    /\ usedIDs = {}
    /\ jobQueue = <<>>
    /\ wBuffer = [w \in Workers |-> <<>>]
    /\ wDelivery = [w \in Workers |-> NoMsg]
    /\ wSummary = [w \in Workers |-> NoSummary]
    /\ crashes = 0
    /\ everRegistered = {}
    /\ enqueued = {}
    /\ published = {}
    /\ acked = {}
    /\ rejected = {}
    /\ lost = {}
    /\ foreignJobs = 0
    /\ foreignSummaries = 0
    /\ jobRejects = [w \in Workers |-> 0]
    /\ skipped = [g \in Gateways |-> 0]
    /\ InitLocal

\* The deployment after startup: every gateway has connected to the broker,
\* serves HTTP and has its result listener consuming; every worker has
\* registered its consumer.  No client has connected yet.
Init ==
    /\ gwUp = [g \in Gateways |-> TRUE]
    /\ rabbitMQClient = [g \in Gateways |-> "connected"]
    /\ lstPc = [g \in Gateways |-> "recv"]
    /\ wPc = [w \in Workers |-> "wait"]
    /\ InitRest
    /\ NoSanitizeCall

\* The deployment before any gateway or worker process has started; the
\* broker is up.
InitStartup ==
    /\ gwUp = [g \in Gateways |-> FALSE]
    /\ rabbitMQClient = [g \in Gateways |-> "nil"]
    /\ lstPc = [g \in Gateways |-> "off"]
    /\ wPc = [w \in Workers |-> "off"]
    /\ InitRest
    /\ NoSanitizeCall

\* ------------------------------------------------------------ helpers
\* Variant: the generator returns the same value again.
NewUUID_Reused == CHOOSE i \in IDs : \A j \in IDs : i <= j

\* uuid.New(): a value no earlier call returned.
NewUUID == CHOOSE i \in IDs \ usedIDs : \A j \in IDs \ usedIDs : i <= j

\* Outcome of a write on connection c: the frame reaches the peer unless the
\* peer has closed.  Every caller only logs the error of a failed write.
WriteOk(c) == ~clientClosed[c]

Frame(kind, id, ok) == [kind |-> kind, id |-> id, ok |-> ok]

\* json.Marshal(summary) / json.Unmarshal(d.Body, &summary)
MarshalSummary(s) == [wellformed |-> TRUE, body |-> s]

UnmarshalSummary(b) ==
    IF b.wellformed THEN [err |-> FALSE, summary |-> b.body]
    ELSE [err |-> TRUE, summary |-> NoSummary]

\* json.Marshal(job) inside PublishJob / json.Unmarshal(d.Body, &job)
MarshalJob(j) == [kind |-> "job", wellformed |-> TRUE, body |-> j]

UnmarshalJob(d) ==
    IF d.wellformed THEN [err |-> FALSE, job |-> d.body]
    ELSE [err |-> TRUE, job |-> [URLs |-> <<>>, Selector |-> "", DownloadID |-> NoID]]

\* ------------------------------------------------------------ gateway: Run
\* Run: queue.NewRabbitMQClient succeeded, go listenForResults() started the
\* listener goroutine, the two routes are registered and ListenAndServe
\* accepts connections.  The listener has yet to reach the broker.
Run(g) ==
    /\ ~gwUp[g]
    /\ lstPc[g] = "off"
    /\ gwUp' = [gwUp EXCEPT ![g] = TRUE]
    /\ rabbitMQClient' = [rabbitMQClient EXCEPT ![g] = "connected"]
    /\ lstPc' = [lstPc EXCEPT ![g] = "setup"]
    /\ UNCHANGED <<lstSummary, lstConn, resultsQ, clients, clientsMutex>>
    /\ UNCHANGED <<connVars, workerVars, histVars, envVars, localVars>>

\* Variant: a failed broker connection is logged and the gateway serves.
RunFatal_Serve(g) ==
    /\ ~gwUp[g]
    /\ lstPc[g] = "off"
    /\ gwUp' = [gwUp EXCEPT ![g] = TRUE]
    /\ lstPc' = [lstPc EXCEPT ![g] = "setup"]
    /\ UNCHANGED <<rabbitMQClient, lstSummary, lstConn, resultsQ, clients, clientsMutex>>
    /\ UNCHANGED <<connVars, workerVars, histVars, envVars, localVars>>

\* Run: queue.NewRabbitMQClient returned an error: log.Fatalf ends the
\* process before the listener is started and before ListenAndServe.
RunFatal(g) ==
    /\ ~gwUp[g]
    /\ lstPc[g] = "off"
    /\ lstPc' = [lstPc EXCEPT ![g] = "exited"]
    /\ UNCHANGED <<gwUp, rabbitMQClient, lstSummary, lstConn, resultsQ, clients, clientsMutex>>
    /\ UNCHANGED <<connVars, workerVars, histVars, envVars, localVars>>

\* listenForResults up to the loop: Dial, Channel, ExchangeDeclare,
\* QueueDeclare (exclusive, auto-delete), QueueBind and Consume succeeded;
\* from now on the exchange copies every message to this gateway's queue.
ListenerSubscribe(g) ==
    /\ lstPc[g] = "setup"
    /\ lstPc' = [lstPc EXCEPT ![g] = "recv"]
    /\ UNCHANGED <<gwUp, rabbitMQClient, lstSummary, lstConn, resultsQ, clients, clientsMutex>>
    /\ UNCHANGED <<connVars, workerVars, histVars, envVars, localVars>>

\* One of the setup calls of listenForResults failed: log.Fatalf ends the
\* gateway process, and with it its handlers, its connections and its
\* registry.
ListenerFatal(g) ==
    /\ lstPc[g] = "setup"
    /\ lstPc' = [lstPc EXCEPT ![g] = "exited"]
    /\ gwUp' = [gwUp EXCEPT ![g] = FALSE]
    /\ UNCHANGED rabbitMQClient
    /\ clients' = [clients EXCEPT ![g] = [i \in IDs |-> 0]]
    /\ clientsMutex' = [clientsMutex EXCEPT ![g] = NoHolder]
    /\ hPc' = [c \in Conns |->
                 IF hGw[c] = g /\ hPc[c] # "none" THEN "done" ELSE hPc[c]]
    /\ closeHandler' = [c \in Conns |->
                 IF hGw[c] = g /\ hPc[c] # "none" THEN "unset" ELSE closeHandler[c]]
    /\ UNCHANGED <<lstSummary, lstConn, resultsQ>>
    /\ UNCHANGED <<hGw, downloadID, req, clientClosed, sent, usedIDs>>
    /\ UNCHANGED <<workerVars, histVars, envVars, localVars>>

\* Bytes that are no JSON document, as a message of the job queue and as a
\* message of the results exchange.
PoisonJob == [kind |-> "job", wellformed |-> FALSE,
              body |-> [URLs |-> <<>>, Selector |-> "", DownloadID |-> NoID]]

PoisonSummary == [wellformed |-> FALSE, body |-> NoSummary]

\* ------------------------------------------------- gateway: conversionHandler
\* upgrader.Upgrade succeeded: the handler goes on to ReadMessage.
Upgrade(c, g) ==
    /\ hPc[c] = "none"
    /\ IF c = 1 THEN g = "g1" ELSE hPc[c - 1] # "none"
    /\ gwUp[g]
    /\ hPc' = [hPc EXCEPT ![c] = "read"]
    /\ hGw' = [hGw EXCEPT ![c] = g]
    /\ UNCHANGED <<downloadID, req, closeHandler, clientClosed, sent, usedIDs>>
    /\ UNCHANGED <<gwVars, workerVars, histVars, envVars, localVars>>

\* conn.ReadMessage failed: the handler returns.
ReadMessageError(c) ==
    /\ hPc[c] = "read"
    /\ clientClosed[c]
    /\ hPc' = [hPc EXCEPT ![c] = "done"]
    /\ UNCHANGED <<hGw, downloadID, req, closeHandler, clientClosed, sent, usedIDs>>
    /\ UNCHANGED <<gwVars, workerVars, histVars, envVars, localVars>>

\* Variant: the handler reports the error and goes on without returning.
InvalidRequest_NoReturn(c, msg) ==
    /\ hPc[c] = "read"
    /\ UnmarshalRequest(msg).err
    /\ sent' = [sent EXCEPT ![c] = Append(@, Frame("error_text", NoID, WriteOk(c)))]
    /\ req' = [req EXCEPT ![c] = UnmarshalRequest(msg).req]
    /\ downloadID' = [downloadID EXCEPT ![c] = NewUUID]
    /\ usedIDs' = usedIDs \cup {NewUUID}
    /\ hPc' = [hPc EXCEPT ![c] = "lock"]
    /\ UNCHANGED <<hGw, closeHandler, clientClosed>>
    /\ UNCHANGED <<gwVars, workerVars, histVars, envVars, localVars>>

\* The request could not be decoded: a text frame with the error, return.
InvalidRequest(c, msg) ==
    /\ hPc[c] = "read"
    /\ UnmarshalRequest(msg).err
    /\ sent' = [sent EXCEPT ![c] = Append(@, Frame("error_text", NoID, WriteOk(c)))]
    /\ hPc' = [hPc EXCEPT ![c] = "done"]
    /\ UNCHANGED <<hGw, downloadID, req, closeHandler, clientClosed, usedIDs>>
    /\ UNCHANGED <<gwVars, workerVars, histVars, envVars, localVars>>

\* Variant: the handler goes from the id straight to PublishJob and never
\* registers the connection.
AfterNewID_Unregistered == "publish"

\* Position of the handler after downloadID := uuid.New().String(): the
\* registration under the lock comes next, before the job is built.
AfterNewID == "lock"

\* The request was decoded: assign the download id.
AcceptRequest(c, msg) ==
    /\ hPc[c] = "read"
    /\ ~UnmarshalRequest(msg).err
    /\ req' = [req EXCEPT ![c] = UnmarshalRequest(msg).req]
    /\ downloadID' = [downloadID EXCEPT ![c] = NewUUID]
    /\ usedIDs' = usedIDs \cup {NewUUID}
    /\ hPc' = [hPc EXCEPT ![c] = AfterNewID]
    /\ UNCHANGED <<hGw, closeHandler, clientClosed, sent>>
    /\ UNCHANGED <<gwVars, workerVars, histVars, envVars, localVars>>

\* Variant: the registration does not wait for the lock.
HandlerLock_NoWait(c) ==
    /\ hPc[c] = "lock"
    /\ clientsMutex' = [clientsMutex EXCEPT ![hGw[c]] = <<"handler", c>>]
    /\ hPc' = [hPc EXCEPT ![c] = "insert"]
    /\ UNCHANGED <<gwUp, rabbitMQClient, lstPc, lstSummary, lstConn, resultsQ, clients>>
    /\ UNCHANGED <<hGw, downloadID, req, closeHandler, clientClosed, sent, usedIDs>>
    /\ UNCHANGED <<workerVars, histVars, envVars, localVars>>

\* clientsMutex.Lock() of the registration.
HandlerLock(c) ==
    /\ hPc[c] = "lock"
    /\ clientsMutex[hGw[c]] = NoHolder
    /\ clientsMutex' = [clientsMutex EXCEPT ![hGw[c]] = <<"handler", c>>]
    /\ hPc' = [hPc EXCEPT ![c] = "insert"]
    /\ UNCHANGED <<gwUp, rabbitMQClient, lstPc, lstSummary, lstConn, resultsQ, clients>>
    /\ UNCHANGED <<hGw, downloadID, req, closeHandler, clientClosed, sent, usedIDs>>
    /\ UNCHANGED <<workerVars, histVars, envVars, localVars>>

\* clients[downloadID] = conn; clientsMutex.Unlock(); then
\* conn.SetCloseHandler(...), which touches the connection only.
HandlerInsert(c) ==
    /\ hPc[c] = "insert"
    /\ clients' = [clients EXCEPT ![hGw[c]][downloadID[c]] = c]
    /\ clientsMutex' = [clientsMutex EXCEPT ![hGw[c]] = NoHolder]
    /\ everRegistered' = everRegistered \cup {<<hGw[c], downloadID[c]>>}
    /\ closeHandler' = [closeHandler EXCEPT ![c] = "armed"]
    /\ hPc' = [hPc EXCEPT ![c] = "publish"]
    /\ UNCHANGED <<gwUp, rabbitMQClient, lstPc, lstSummary, lstConn, resultsQ>>
    /\ UNCHANGED <<hGw, downloadID, req, clientClosed, sent, usedIDs>>
    /\ UNCHANGED <<workerVars, enqueued, published, acked, rejected, lost, envVars, localVars>>

\* Variant: the job is built with the URLs in reverse order.
JobOf_Reversed(c) ==
    [URLs |-> [i \in 1..Len(req[c].URLs) |-> req[c].URLs[Len(req[c].URLs) + 1 - i]],
     Selector |-> req[c].Selector, DownloadID |-> downloadID[c]]

\* queue.ConversionJob built from the request.
JobOf(c) == [URLs |-> req[c].URLs, Selector |-> req[c].Selector, DownloadID |-> downloadID[c]]

\* rabbitMQClient.PublishJob(job) returned nil: the job is in the durable
\* queue.
PublishJobOk(c) ==
    /\ hPc[c] = "publish"
    /\ rabbitMQClient[hGw[c]] = "connected"
    /\ jobQueue' = Append(jobQueue, MarshalJob(JobOf(c)))
    /\ enqueued' = enqueued \cup {downloadID[c]}
    /\ hPc' = [hPc EXCEPT ![c] = "ack"]
    /\ UNCHANGED <<hGw, downloadID, req, closeHandler, clientClosed, sent, usedIDs>>
    /\ UNCHANGED <<wPc, wBuffer, wDelivery, wSummary, crashes>>
    /\ UNCHANGED <<gwVars, everRegistered, published, acked, rejected, lost, envVars, localVars>>

\* Variant: after the close frame the handler goes on to the acknowledgment.
PublishJobErr_NoReturn(c) ==
    /\ hPc[c] = "publish"
    /\ sent' = [sent EXCEPT ![c] = Append(@, Frame("close_1011", NoID, WriteOk(c)))]
    /\ hPc' = [hPc EXCEPT ![c] = "ack"]
    /\ UNCHANGED <<hGw, downloadID, req, closeHandler, clientClosed, usedIDs>>
    /\ UNCHANGED <<gwVars, workerVars, histVars, envVars, localVars>>

\* PublishJob returned an error: a close frame (1011) and return.
PublishJobErr(c) ==
    /\ hPc[c] = "publish"
    /\ sent' = [sent EXCEPT ![c] = Append(@, Frame("close_1011", NoID, WriteOk(c)))]
    /\ hPc' = [hPc EXCEPT ![c] = "done"]
    /\ UNCHANGED <<hGw, downloadID, req, closeHandler, clientClosed, usedIDs>>
    /\ UNCHANGED <<gwVars, workerVars, histVars, envVars, localVars>>

\* Variant: the handler removes its registry entry when it returns.
WriteAck_Deregister(c) ==
    /\ hPc[c] = "ack"
    /\ clientsMutex[hGw[c]] = NoHolder
    /\ sent' = [sent EXCEPT ![c] = Append(@, Frame("ack", downloadID[c], WriteOk(c)))]
    /\ clients' = [clients EXCEPT ![hGw[c]][downloadID[c]] = 0]
    /\ hPc' = [hPc EXCEPT ![c] = "done"]
    /\ UNCHANGED <<gwUp, rabbitMQClient, lstPc, lstSummary, lstConn, resultsQ, clientsMutex>>
    /\ UNCHANGED <<hGw, downloadID, req, closeHandler, clientClosed, usedIDs>>
    /\ UNCHANGED <<workerVars, histVars, envVars, localVars>>

\* conn.WriteJSON(initialLog): the acknowledgment naming the job id.
WriteAck(c) ==
    /\ hPc[c] = "ack"
    /\ sent' = [sent EXCEPT ![c] = Append(@, Frame("ack", downloadID[c], WriteOk(c)))]
    /\ hPc' = [hPc EXCEPT ![c] = "done"]
    /\ UNCHANGED <<hGw, downloadID, req, closeHandler, clientClosed, usedIDs>>
    /\ UNCHANGED <<gwVars, workerVars, histVars, envVars, localVars>>

\* ------------------------------------------------------- client and close
\* The client closes its end of the connection (or the connection breaks).
ClientClose(c) ==
    /\ hPc[c] # "none"
    /\ ~clientClosed[c]
    /\ clientClosed' = [clientClosed EXCEPT ![c] = TRUE]
    /\ UNCHANGED <<hPc, hGw, downloadID, req, closeHandler, sent, usedIDs>>
    /\ UNCHANGED <<gwVars, workerVars, histVars, envVars, localVars>>

\* The close handler installed by conversionHandler: clientsMutex.Lock().
\* It can only run once it is installed; the library calls it from a read
\* of the connection, so it may also never run.
CloseHandlerLock(c) ==
    /\ closeHandler[c] = "armed"
    /\ clientClosed[c]
    /\ clientsMutex[hGw[c]] = NoHolder
    /\ clientsMutex' = [clientsMutex EXCEPT ![hGw[c]] = <<"close", c>>]
    /\ closeHandler' = [closeHandler EXCEPT ![c] = "locked"]
    /\ UNCHANGED <<gwUp, rabbitMQClient, lstPc, lstSummary, lstConn, resultsQ, clients>>
    /\ UNCHANGED <<hPc, hGw, downloadID, req, clientClosed, sent, usedIDs>>
    /\ UNCHANGED <<workerVars, histVars, envVars, localVars>>

\* delete(clients, downloadID); clientsMutex.Unlock()
CloseHandlerDelete(c) ==
    /\ closeHandler[c] = "locked"
    /\ clients' = [clients EXCEPT ![hGw[c]][downloadID[c]] = 0]
    /\ clientsMutex' = [clientsMutex EXCEPT ![hGw[c]] = NoHolder]
    /\ closeHandler' = [closeHandler EXCEPT ![c] = "ran"]
    /\ UNCHANGED <<gwUp, rabbitMQClient, lstPc, lstSummary, lstConn, resultsQ>>
    /\ UNCHANGED <<hPc, hGw, downloadID, req, clientClosed, sent, usedIDs>>
    /\ UNCHANGED <<workerVars, histVars, envVars, localVars>>

\* --------------------------------------------- gateway: listenForResults
\* Variant: a Summary that does not decode ends the loop.
ListenerRecv_StopOnError(g) ==
    /\ lstPc[g] = "recv"
    /\ resultsQ[g] # <<>>
    /\ resultsQ' = [resultsQ EXCEPT ![g] = Tail(@)]
    /\ LET u == UnmarshalSummary(Head(resultsQ[g]))
       IN  IF u.err
           THEN /\ skipped' = [skipped EXCEPT ![g] = @ + 1]
                /\ lstPc' = [lstPc EXCEPT ![g] = "off"]
                /\ UNCHANGED lstSummary
           ELSE /\ lstSummary' = [lstSummary EXCEPT ![g] = u.summary]
                /\ lstPc' = [lstPc EXCEPT ![g] = "lock"]
                /\ UNCHANGED skipped
    /\ UNCHANGED <<gwUp, rabbitMQClient, lstConn, clients, clientsMutex>>
    /\ UNCHANGED <<connVars, workerVars, histVars>>
    /\ UNCHANGED <<foreignJobs, foreignSummaries, jobRejects>>
    /\ UNCHANGED localVars

\* for d := range msgs: take the next message; a body that does not decode
\* is logged and skipped.
ListenerRecv(g) ==
    /\ lstPc[g] = "recv"
    /\ resultsQ[g] # <<>>
    /\ resultsQ' = [resultsQ EXCEPT ![g] = Tail(@)]
    /\ LET u == UnmarshalSummary(Head(resultsQ[g]))
       IN  IF u.err
           THEN /\ skipped' = [skipped EXCEPT ![g] = @ + 1]
                /\ UNCHANGED <<lstPc, lstSummary>>
           ELSE /\ lstSummary' = [lstSummary EXCEPT ![g] = u.summary]
                /\ lstPc' = [lstPc EXCEPT ![g] = "lock"]
                /\ UNCHANGED skipped
    /\ UNCHANGED <<gwUp, rabbitMQClient, lstConn, clients, clientsMutex>>
    /\ UNCHANGED <<connVars, workerVars, histVars>>
    /\ UNCHANGED <<foreignJobs, foreignSummaries, jobRejects>>
    /\ UNCHANGED localVars

\* Variant: the listener takes whichever entry the registry holds.
LookupKey_Any(g) ==
    IF \E i \in IDs : clients[g][i] # 0
    THEN CHOOSE i \in IDs : clients[g][i] # 0
    ELSE lstSummary[g].DownloadID

\* The registry key the listener looks up: the Summary's DownloadID.
LookupKey(g) == lstSummary[g].DownloadID

\* Variant: the listener unlocks after the lookup and writes without the
\* lock.
HolderDuringWrite_Unlocked(g) == NoHolder

\* Lock holder while the listener writes the completion message: the
\* listener keeps clientsMutex from the lookup to the delete.
HolderDuringWrite(g) == <<"listener", 0>>

\* clientsMutex.Lock(); conn, ok := clients[summary.DownloadID]; found: go
\* on to the write with the lock held.
ListenerLookupHit(g) ==
    /\ lstPc[g] = "lock"
    /\ clientsMutex[g] = NoHolder
    /\ clients[g][LookupKey(g)] # 0
    /\ lstConn' = [lstConn EXCEPT ![g] = clients[g][LookupKey(g)]]
    /\ clientsMutex' = [clientsMutex EXCEPT ![g] = HolderDuringWrite(g)]
    /\ lstPc' = [lstPc EXCEPT ![g] = "write"]
    /\ UNCHANGED <<gwUp, rabbitMQClient, lstSummary, resultsQ, clients>>
    /\ UNCHANGED <<connVars, workerVars, histVars, envVars, localVars>>

\* Variant: a Summary without a registration ends the loop.
ListenerLookupMiss_Stop(g) ==
    /\ lstPc[g] = "lock"
    /\ clientsMutex[g] = NoHolder
    /\ clients[g][LookupKey(g)] = 0
    /\ UNCHANGED clientsMutex
    /\ lstPc' = [lstPc EXCEPT ![g] = "off"]
    /\ lstSummary' = [lstSummary EXCEPT ![g] = NoSummary]
    /\ UNCHANGED <<gwUp, rabbitMQClient, lstConn, resultsQ, clients>>
    /\ UNCHANGED <<connVars, workerVars, histVars, envVars, localVars>>

\* Lock, lookup, not found: clientsMutex.Unlock() and on to the next
\* message.
ListenerLookupMiss(g) ==
    /\ lstPc[g] = "lock"
    /\ clientsMutex[g] = NoHolder
    /\ clients[g][LookupKey(g)] = 0
    /\ UNCHANGED clientsMutex
    /\ lstPc' = [lstPc EXCEPT ![g] = "recv"]
    /\ lstSummary' = [lstSummary EXCEPT ![g] = NoSummary]
    /\ UNCHANGED <<gwUp, rabbitMQClient, lstConn, resultsQ, clients>>
    /\ UNCHANGED <<connVars, workerVars, histVars, envVars, localVars>>

\* conn.WriteJSON(finalResponse); an error is logged only.
ListenerWrite(g) ==
    /\ lstPc[g] = "write"
    /\ sent' = [sent EXCEPT ![lstConn[g]] =
                  Append(@, Frame("completed", lstSummary[g].DownloadID, WriteOk(lstConn[g])))]
    /\ lstPc' = [lstPc EXCEPT ![g] = "delete"]
    /\ UNCHANGED <<gwUp, rabbitMQClient, lstSummary, lstConn, resultsQ, clients, clientsMutex>>
    /\ UNCHANGED <<hPc, hGw, downloadID, req, closeHandler, clientClosed, usedIDs>>
    /\ UNCHANGED <<workerVars, histVars, envVars, localVars>>

\* Variant: the listener unlocks without deleting the entry.
ListenerDelete_Keep(g) ==
    /\ lstPc[g] = "delete"
    /\ clientsMutex' = [clientsMutex EXCEPT ![g] = NoHolder]
    /\ lstPc' = [lstPc EXCEPT ![g] = "recv"]
    /\ lstSummary' = [lstSummary EXCEPT ![g] = NoSummary]
    /\ lstConn' = [lstConn EXCEPT ![g] = 0]
    /\ UNCHANGED <<gwUp, rabbitMQClient, resultsQ, clients>>
    /\ UNCHANGED <<connVars, workerVars, histVars, envVars, localVars>>

\* Variant: the entry is deleted only after a write that succeeded.
ListenerDelete_OnSuccess(g) ==
    /\ lstPc[g] = "delete"
    /\ clients' = IF sent[lstConn[g]][Len(sent[lstConn[g]])].ok
                  THEN [clients EXCEPT ![g][lstSummary[g].DownloadID] = 0]
                  ELSE clients
    /\ clientsMutex' = [clientsMutex EXCEPT ![g] = NoHolder]
    /\ lstPc' = [lstPc EXCEPT ![g] = "recv"]
    /\ lstSummary' = [lstSummary EXCEPT ![g] = NoSummary]
    /\ lstConn' = [lstConn EXCEPT ![g] = 0]
    /\ UNCHANGED <<gwUp, rabbitMQClient, resultsQ>>
    /\ UNCHANGED <<connVars, workerVars, histVars, envVars, localVars>>

\* delete(clients, summary.DownloadID); clientsMutex.Unlock()
ListenerDelete(g) ==
    /\ lstPc[g] = "delete"
    /\ clients' = [clients EXCEPT ![g][lstSummary[g].DownloadID] = 0]
    /\ clientsMutex' = [clientsMutex EXCEPT ![g] = NoHolder]
    /\ lstPc' = [lstPc EXCEPT ![g] = "recv"]
    /\ lstSummary' = [lstSummary EXCEPT ![g] = NoSummary]
    /\ lstConn' = [lstConn EXCEPT ![g] = 0]
    /\ UNCHANGED <<gwUp, rabbitMQClient, resultsQ>>
    /\ UNCHANGED <<connVars, workerVars, histVars, envVars, localVars>>

\* ------------------------------------------------------------------ worker
\* main up to the loop: Dial, Channel, QueueDeclare, Qos and Consume
\* succeeded; the worker is a consumer of the job queue.
WorkerStart(w) ==
    /\ wPc[w] = "off"
    /\ wPc' = [wPc EXCEPT ![w] = "wait"]
    /\ UNCHANGED <<jobQueue, wBuffer, wDelivery, wSummary, crashes>>
    /\ UNCHANGED <<gwVars, connVars, histVars, envVars, localVars>>

\* main: one of Dial, Channel, QueueDeclare, Qos, Consume failed;
\* failOnError calls log.Fatalf and the process ends.
WorkerStartFatal(w) ==
    /\ wPc[w] = "off"
    /\ wPc' = [wPc EXCEPT ![w] = "exited"]
    /\ UNCHANGED <<jobQueue, wBuffer, wDelivery, wSummary, crashes>>
    /\ UNCHANGED <<gwVars, connVars, histVars, envVars, localVars>>

\* Workers that are registered as consumers of the job queue.
Consumers == {w \in Workers : wPc[w] \notin {"off", "exited"}}

\* ch.Qos(1, 0, false): the prefetch count of the worker's channel.
PrefetchCount == 1

\* Deliveries of worker w the broker has not seen settled: those waiting on
\* msgs and the one the loop is working on.
Unacked(w) == Len(wBuffer[w]) + (IF wDelivery[w] = NoMsg THEN 0 ELSE 1)

\* Variant: the channel has no prefetch limit.
Deliver_NoPrefetchLimit(w) ==
    /\ w \in Consumers
    /\ jobQueue # <<>>
    /\ jobQueue' = Tail(jobQueue)
    /\ wBuffer' = [wBuffer EXCEPT ![w] = Append(@, Head(jobQueue))]
    /\ UNCHANGED <<wPc, wDelivery, wSummary, crashes>>
    /\ UNCHANGED <<gwVars, connVars, histVars, envVars, localVars>>

\* ch.Consume(q.Name, "", false, ...): the broker pushes the head of the
\* queue on the msgs channel of a consumer whose unacknowledged deliveries
\* are below the prefetch count.
Deliver(w) ==
    /\ w \in Consumers
    /\ jobQueue # <<>>
    /\ Unacked(w) < PrefetchCount
    /\ jobQueue' = Tail(jobQueue)
    /\ wBuffer' = [wBuffer EXCEPT ![w] = Append(@, Head(jobQueue))]
    /\ UNCHANGED <<wPc, wDelivery, wSummary, crashes>>
    /\ UNCHANGED <<gwVars, connVars, histVars, envVars, localVars>>

\* Variant: a delivery that does not decode is rejected with requeue.
Receive_Requeue(w) ==
    /\ wPc[w] = "wait"
    /\ wBuffer[w] # <<>>
    /\ wBuffer' = [wBuffer EXCEPT ![w] = Tail(@)]
    /\ IF UnmarshalJob(Head(wBuffer[w])).err
       THEN /\ jobRejects' = [jobRejects EXCEPT ![w] = @ + 1]
            /\ jobQueue' = Append(jobQueue, Head(wBuffer[w]))
            /\ UNCHANGED <<wDelivery, wPc>>
       ELSE /\ wDelivery' = [wDelivery EXCEPT ![w] = Head(wBuffer[w])]
            /\ wPc' = [wPc EXCEPT ![w] = "newconverter"]
            /\ UNCHANGED <<jobRejects, jobQueue>>
    /\ UNCHANGED <<wSummary, crashes>>
    /\ UNCHANGED <<gwVars, connVars, histVars>>
    /\ UNCHANGED <<foreignJobs, foreignSummaries, skipped>>
    /\ UNCHANGED localVars

\* for d := range msgs: the loop reads the next delivery.
\* json.Unmarshal(d.Body, &job): on error d.Reject(false) and continue.
Receive(w) ==
    /\ wPc[w] = "wait"
    /\ wBuffer[w] # <<>>
    /\ wBuffer' = [wBuffer EXCEPT ![w] = Tail(@)]
    /\ IF UnmarshalJob(Head(wBuffer[w])).err
       THEN /\ jobRejects' = [jobRejects EXCEPT ![w] = @ + 1]
            /\ UNCHANGED <<wDelivery, wPc>>
       ELSE /\ wDelivery' = [wDelivery EXCEPT ![w] = Head(wBuffer[w])]
            /\ wPc' = [wPc EXCEPT ![w] = "newconverter"]
            /\ UNCHANGED jobRejects
    /\ UNCHANGED <<jobQueue, wSummary, crashes>>
    /\ UNCHANGED <<gwVars, connVars, histVars>>
    /\ UNCHANGED <<foreignJobs, foreignSummaries, skipped>>
    /\ UNCHANGED localVars

\* The pages the executor can fetch: "a" converts, "b" fails to fetch.
FetchOk(url) == url = "a"

\* Number of URLs of the sequence that convert.
RECURSIVE CountOk(_)
CountOk(urls) ==
    IF urls = <<>> THEN 0
    ELSE (IF FetchOk(Head(urls)) THEN 1 ELSE 0) + CountOk(Tail(urls))

\* The Summary Convert sends on summaryChan: every URL counted once, as
\* successful or as failed.
Summarize(job) ==
    [DownloadID |-> job.DownloadID, TotalURLs |-> Len(job.URLs),
     Successful |-> CountOk(job.URLs), Failed |-> Len(job.URLs) - CountOk(job.URLs)]

WJob(w) == UnmarshalJob(wDelivery[w]).job

\* Variant: the delivery is rejected with requeue.
NewConverterErr_Requeue(w) ==
    /\ wPc[w] = "newconverter"
    /\ rejected' = rejected \cup {WJob(w).DownloadID}
    /\ jobQueue' = Append(jobQueue, wDelivery[w])
    /\ wDelivery' = [wDelivery EXCEPT ![w] = NoMsg]
    /\ wPc' = [wPc EXCEPT ![w] = "wait"]
    /\ UNCHANGED <<wBuffer, wSummary, crashes>>
    /\ UNCHANGED <<gwVars, connVars, everRegistered, enqueued, published, acked, lost, envVars, localVars>>

\* Variant: the loop continues without settling the delivery.
NewConverterErr_Unsettled(w) ==
    /\ wPc[w] = "newconverter"
    /\ wPc' = [wPc EXCEPT ![w] = "wait"]
    /\ UNCHANGED <<jobQueue, wBuffer, wDelivery, wSummary, crashes>>
    /\ UNCHANGED <<gwVars, connVars, histVars, envVars, localVars>>

\* NewConverterForJob failed: d.Reject(false) and continue.
NewConverterErr(w) ==
    /\ wPc[w] = "newconverter"
    /\ rejected' = rejected \cup {WJob(w).DownloadID}
    /\ wDelivery' = [wDelivery EXCEPT ![w] = NoMsg]
    /\ wPc' = [wPc EXCEPT ![w] = "wait"]
    /\ UNCHANGED <<jobQueue, wBuffer, wSummary, crashes>>
    /\ UNCHANGED <<gwVars, connVars, everRegistered, enqueued, published, acked, lost, envVars, localVars>>

\* NewConverterForJob succeeded; c.Convert(job.URLs, job.Selector), the
\* result stream drained and the
\* Summary read: every URL is counted as successful or as failed.
Convert(w) ==
    /\ wPc[w] = "newconverter"
    /\ wSummary' = [wSummary EXCEPT ![w] = Summarize(WJob(w))]
    /\ lost' = lost \ {WJob(w).DownloadID}
    /\ wPc' = [wPc EXCEPT ![w] = "publish"]
    /\ UNCHANGED <<jobQueue, wBuffer, wDelivery, crashes>>
    /\ UNCHANGED <<gwVars, connVars, everRegistered, enqueued, published, acked, rejected, envVars, localVars>>

\* Positions of a listener whose loop over msgs is running.
ListenerRunning == {"recv", "lock", "write", "delete"}

\* Gateways whose queue is bound to results_fanout.
Subscribers == {g \in Gateways : lstPc[g] \in ListenerRunning}

\* publishResults: exchange declared, summary marshalled and published; the
\* fanout exchange copies the message to every bound queue.
PublishResultsOk(w) ==
    /\ wPc[w] = "publish"
    /\ resultsQ' = [g \in Gateways |->
                      IF g \in Subscribers
                      THEN Append(resultsQ[g], MarshalSummary(wSummary[w]))
                      ELSE resultsQ[g]]
    /\ published' = published \cup {wSummary[w].DownloadID}
    /\ wPc' = [wPc EXCEPT ![w] = "ack"]
    /\ UNCHANGED <<gwUp, rabbitMQClient, lstPc, lstSummary, lstConn, clients, clientsMutex>>
    /\ UNCHANGED <<jobQueue, wBuffer, wDelivery, wSummary, crashes>>
    /\ UNCHANGED <<connVars, everRegistered, enqueued, acked, rejected, lost, envVars, localVars>>

\* publishResults: ExchangeDeclare, json.Marshal or Publish returned an
\* error; it is logged and publishResults returns.
PublishResultsErr(w) ==
    /\ wPc[w] = "publish"
    /\ wPc' = [wPc EXCEPT ![w] = "ack"]
    /\ UNCHANGED <<jobQueue, wBuffer, wDelivery, wSummary, crashes>>
    /\ UNCHANGED <<gwVars, connVars, histVars, envVars, localVars>>

\* d.Ack(false)
Ack(w) ==
    /\ wPc[w] = "ack"
    /\ acked' = acked \cup {WJob(w).DownloadID}
    /\ wDelivery' = [wDelivery EXCEPT ![w] = NoMsg]
    /\ wSummary' = [wSummary EXCEPT ![w] = NoSummary]
    /\ wPc' = [wPc EXCEPT ![w] = "wait"]
    /\ UNCHANGED <<jobQueue, wBuffer, crashes>>
    /\ UNCHANGED <<gwVars, connVars, everRegistered, enqueued, published, rejected, lost, envVars, localVars>>

\* The deliveries the broker returns to the queue when the channel of worker
\* w closes: the one in work and those still waiting on msgs.
Unsettled(w) == (IF wDelivery[w] = NoMsg THEN <<>> ELSE <<wDelivery[w]>>) \o wBuffer[w]

\* Ids of the decodable jobs among the deliveries of the sequence.
JobIDs(ds) == {ds[i].body.DownloadID : i \in {j \in 1..Len(ds) : ds[j].wellformed}}

\* Variant: the consumer is registered with auto-ack, so the delivery of a
\* worker that dies is gone.
WorkerCrash_AutoAck(w) ==
    /\ Unacked(w) > 0
    /\ crashes < MaxCrashes
    /\ crashes' = crashes + 1
    /\ wPc' = [wPc EXCEPT ![w] = "wait"]
    /\ wSummary' = [wSummary EXCEPT ![w] = NoSummary]
    /\ wDelivery' = [wDelivery EXCEPT ![w] = NoMsg]
    /\ wBuffer' = [wBuffer EXCEPT ![w] = <<>>]
    /\ lost' = lost \cup JobIDs(Unsettled(w))
    /\ UNCHANGED jobQueue
    /\ UNCHANGED <<gwVars, connVars, everRegistered, enqueued, published, acked, rejected, envVars, localVars>>

\* The worker process dies while it holds a claimed job.  Its channel
\* closes, the broker puts the unacknowledged deliveries back at the head of
\* the queue, and a fresh worker process (main up to the consumer
\* registration) takes its place in the pool.
WorkerCrash(w) ==
    /\ Unacked(w) > 0
    /\ crashes < MaxCrashes
    /\ crashes' = crashes + 1
    /\ wPc' = [wPc EXCEPT ![w] = "wait"]
    /\ wSummary' = [wSummary EXCEPT ![w] = NoSummary]
    /\ wDelivery' = [wDelivery EXCEPT ![w] = NoMsg]
    /\ wBuffer' = [wBuffer EXCEPT ![w] = <<>>]
    /\ jobQueue' = Unsettled(w) \o jobQueue
    /\ lost' = lost \cup JobIDs(Unsettled(w))
    /\ UNCHANGED <<gwVars, connVars, everRegistered, enqueued, published, acked, rejected, envVars, localVars>>

\* ------------------------------------------------------- other publishers
\* Another client of the broker publishes bytes that are no job to the
\* durable queue the worker consumes.
PublishMalformedJob ==
    /\ foreignJobs < MaxForeign
    /\ foreignJobs' = foreignJobs + 1
    /\ jobQueue' = Append(jobQueue, PoisonJob)
    /\ UNCHANGED <<wPc, wBuffer, wDelivery, wSummary, crashes>>
    /\ UNCHANGED <<foreignSummaries, jobRejects, skipped>>
    /\ UNCHANGED localVars
    /\ UNCHANGED <<gwVars, connVars, histVars>>

\* Another client of the broker publishes bytes that are no Summary to
\* results_fanout; the exchange copies them to every bound queue.
PublishMalformedSummary ==
    /\ foreignSummaries < MaxForeign
    /\ foreignSummaries' = foreignSummaries + 1
    /\ resultsQ' = [g \in Gateways |->
                      IF g \in Subscribers
                      THEN Append(resultsQ[g], PoisonSummary)
                      ELSE resultsQ[g]]
    /\ UNCHANGED <<gwUp, rabbitMQClient, lstPc, lstSummary, lstConn, clients, clientsMutex>>
    /\ UNCHANGED <<foreignJobs, jobRejects, skipped>>
    /\ UNCHANGED localVars
    /\ UNCHANGED <<connVars, workerVars, histVars>>

\* ------------------------------------------------------------ specification
GatewayNext ==
    \/ \E g \in Gateways : ListenerRecv(g)
    \/ \E g \in Gateways : ListenerLookupHit(g)
    \/ \E g \in Gateways : ListenerLookupMiss(g)
    \/ \E g \in Gateways : ListenerWrite(g)
    \/ \E g \in Gateways : ListenerDelete(g)

\* The handlers of the connections C, whose clients send a message of M.
HandlerNext(C, M) ==
    \/ \E c \in C, g \in Gateways : Upgrade(c, g)
    \/ \E c \in C : ReadMessageError(c)
    \/ \E c \in C, msg \in M : InvalidRequest(c, msg)
    \/ \E c \in C, msg \in M : AcceptRequest(c, msg)
    \/ \E c \in C : HandlerLock(c)
    \/ \E c \in C : HandlerInsert(c)
    \/ \E c \in C : PublishJobOk(c)
    \/ \E c \in C : PublishJobErr(c)
    \/ \E c \in C : WriteAck(c)
    \/ \E c \in C : ClientClose(c)
    \/ \E c \in C : CloseHandlerLock(c)
    \/ \E c \in C : CloseHandlerDelete(c)

WorkerNext ==
    \/ \E w \in Workers : Deliver(w)
    \/ \E w \in Workers : Receive(w)
    \/ \E w \in Workers : NewConverterErr(w)
    \/ \E w \in Workers : Convert(w)
    \/ \E w \in Workers : PublishResultsOk(w)
    \/ \E w \in Workers : PublishResultsErr(w)
    \/ \E w \in Workers : Ack(w)

\* Two gateways, a pool of two workers, MaxConns client connections.
Next == GatewayNext \/ HandlerNext(Conns, BasicMessages) \/ WorkerNext

Spec == Init /\ [][Next]_vars

\* The same deployment with one client connection, every kind of
\* submission, and workers that can die while they hold a job.
NextCrash ==
    \/ GatewayNext
    \/ HandlerNext({1}, AllMessages)
    \/ WorkerNext
    \/ \E w \in Workers : WorkerCrash(w)

SpecCrash == Init /\ [][NextCrash]_vars

\* The Go scheduler runs every worker goroutine that can take a step, and
\* the broker hands a ready message to a waiting consumer.  Nothing obliges
\* a worker to crash.
WorkerFairness ==
    /\ WF_vars(\E w \in Workers : Deliver(w))
    /\ \A w \in Workers :
          /\ WF_vars(Receive(w))
          /\ WF_vars(NewConverterErr(w) \/ Convert(w))
          /\ WF_vars(PublishResultsOk(w) \/ PublishResultsErr(w))
          /\ WF_vars(Ack(w))

FairSpecCrash == SpecCrash /\ WorkerFairness

\* One client connection, no crash, and other publishers on the broker.
NextForeign ==
    \/ GatewayNext
    \/ HandlerNext({1}, BasicMessages)
    \/ WorkerNext
    \/ PublishMalformedJob
    \/ PublishMalformedSummary

SpecForeign == Init /\ [][NextForeign]_vars

\* The Go scheduler runs the listener goroutine and every handler goroutine
\* that can take a step; a goroutine inside a critical section leaves it.
\* Nothing obliges a client to connect, to send or to close, and the close
\* handler need not start.
GatewayFairness ==
    /\ \A g \in Gateways :
          /\ WF_vars(ListenerRecv(g))
          /\ WF_vars(ListenerLookupHit(g) \/ ListenerLookupMiss(g))
          /\ WF_vars(ListenerWrite(g))
          /\ WF_vars(ListenerDelete(g))
    /\ \A c \in Conns :
          /\ WF_vars(HandlerLock(c))
          /\ WF_vars(HandlerInsert(c))
          /\ WF_vars(PublishJobOk(c) \/ PublishJobErr(c))
          /\ WF_vars(WriteAck(c))
          /\ WF_vars(CloseHandlerDelete(c))

FairSpecForeign == SpecForeign /\ WorkerFairness /\ GatewayFairness

\* The deployment from the start of the gateway processes, with one client
\* connection.
NextStartup ==
    \/ \E g \in Gateways : Run(g)
    \/ \E g \in Gateways : RunFatal(g)
    \/ \E w \in Workers : WorkerStart(w)
    \/ \E w \in Workers : WorkerStartFatal(w)
    \/ \E g \in Gateways : ListenerSubscribe(g)
    \/ \E g \in Gateways : ListenerFatal(g)
    \/ GatewayNext
    \/ HandlerNext({1}, BasicMessages)
    \/ WorkerNext

SpecStartup == InitStartup /\ [][NextStartup]_vars

\* ------------------------------------------------------ artifact download
\* os.Stat of filepath.Join("tmp", "downloads", id) for the id of path p.
Stat(p) ==
    IF ~downloads[p.id].exists THEN "absent"
    ELSE IF p.file = "" THEN "dir"
    ELSE IF p.file \in downloads[p.id].files THEN "file"
    ELSE "absent"

\* filepath.Walk from the path: the names under which the callback adds
\* the files it meets to the archive, relative to the root of the walk.
\* A root that is a regular file is met itself, with relative path ".".
ZipEntries(p) ==
    IF Stat(p) = "dir" THEN downloads[p.id].files
    ELSE IF Stat(p) = "file" THEN {"."}
    ELSE {}

NoArchive == [streamed |-> FALSE, entries |-> {}]

BadRequest(p) ==
    [path |-> p, status |-> 400, contentType |-> "text/plain",
     disposition |-> NoPath, archive |-> NoArchive]

NotFound(p) ==
    [path |-> p, status |-> 404, contentType |-> "text/plain",
     disposition |-> NoPath, archive |-> NoArchive]

\* The headers set before the archive is written; disposition holds the id
\* that names the attachment <id>.zip.
ZipResponse(p) ==
    [path |-> p, status |-> 200, contentType |-> "application/zip",
     disposition |-> p, archive |-> [streamed |-> TRUE, entries |-> ZipEntries(p)]]

\* downloadHandler for a request whose path ends in p.
DownloadHandler(p) ==
    /\ Len(responses) < MaxRequests
    /\ responses' = Append(responses,
                           IF p = NoPath THEN BadRequest(p)
                           ELSE IF Stat(p) = "absent" THEN NotFound(p)
                           ELSE ZipResponse(p))
    /\ UNCHANGED <<downloads, cliVars, fnVars, sigVars>>
    /\ UNCHANGED <<gwVars, connVars, workerVars, histVars, envVars>>

\* The executor of a job leaves the job's artifact directory, keyed by the
\* job id, with the files it produced.
WriteArtifacts(id, files) ==
    /\ ~downloads[id].exists
    /\ downloads' = [downloads EXCEPT ![id] = [exists |-> TRUE, files |-> files]]
    /\ UNCHANGED <<responses, cliVars, fnVars, sigVars>>
    /\ UNCHANGED <<gwVars, connVars, workerVars, histVars, envVars>>

\* The download endpoint of one gateway and the artifact directories.
NextDownload ==
    \/ \E p \in RequestPaths : DownloadHandler(p)
    \/ \E id \in IDs, files \in SUBSET FileNames : WriteArtifacts(id, files)

SpecDownload == Init /\ [][NextDownload]_vars

\* ---------------------------------------------------------- convert command
otherVars == <<gwVars, connVars, workerVars, histVars, envVars, dlVars, fnVars, sigVars>>

\* The settings runConvert rejects: file or selector empty, or the input
\* path missing or a directory.
InvalidSettings(cfg) ==
    \/ cfg.file = ""
    \/ cfg.selector = ""
    \/ StatInput(cfg.file) # "file"

\* The convert command is started with its file and selector settings
\* bound from the flags or the configuration.
Invoke(r, file, sel) ==
    /\ cliPc[r] = "idle"
    /\ cliCfg' = [cliCfg EXCEPT ![r] = [file |-> file, selector |-> sel]]
    /\ cliPc' = [cliPc EXCEPT ![r] = "validate"]
    /\ UNCHANGED <<now, outDirs, exitCodes, outputDir, urlsLeft, loaded,
                   successCount, errorCount, fetches>>
    /\ UNCHANGED otherVars

\* Variant: after exitFunc the run goes on to create its directory.
ValidateFail_NoReturn(r) ==
    /\ cliPc[r] = "validate"
    /\ InvalidSettings(cliCfg[r])
    /\ exitCodes' = [exitCodes EXCEPT ![r] = Append(@, 1)]
    /\ cliPc' = [cliPc EXCEPT ![r] = "mkdir"]
    /\ UNCHANGED <<now, outDirs, cliCfg, outputDir, urlsLeft, loaded,
                   successCount, errorCount, fetches>>
    /\ UNCHANGED otherVars

\* The two checks at the head of runConvert: exitFunc(1) and return.
ValidateFail(r) ==
    /\ cliPc[r] = "validate"
    /\ InvalidSettings(cliCfg[r])
    /\ exitCodes' = [exitCodes EXCEPT ![r] = Append(@, 1)]
    /\ cliPc' = [cliPc EXCEPT ![r] = "done"]
    /\ UNCHANGED <<now, outDirs, cliCfg, outputDir, urlsLeft, loaded,
                   successCount, errorCount, fetches>>
    /\ UNCHANGED otherVars

ValidateOk(r) ==
    /\ cliPc[r] = "validate"
    /\ ~InvalidSettings(cliCfg[r])
    /\ cliPc' = [cliPc EXCEPT ![r] = "mkdir"]
    /\ UNCHANGED <<now, outDirs, cliCfg, exitCodes, outputDir, urlsLeft, loaded,
                   successCount, errorCount, fetches>>
    /\ UNCHANGED otherVars

\* createRunOutputDir names the directory by the current second; a
\* directory of that name is removed with all it holds and created again.
\* Then the input file is read and its URLs are loaded.
CreateRunOutputDir(r) ==
    /\ cliPc[r] = "mkdir"
    /\ outputDir' = [outputDir EXCEPT ![r] = now]
    /\ outDirs' = [outDirs EXCEPT ![now] = [exists |-> TRUE, files |-> {}]]
    /\ urlsLeft' = [urlsLeft EXCEPT ![r] = LoadURLs(InputLines)]
    /\ loaded' = [loaded EXCEPT ![r] = Len(LoadURLs(InputLines))]
    /\ cliPc' = [cliPc EXCEPT ![r] = "loop"]
    /\ UNCHANGED <<now, cliCfg, exitCodes, successCount, errorCount, fetches>>
    /\ UNCHANGED otherVars

\* createRunOutputDir returned an error: log.Fatalf ends the process.
CreateRunOutputDirErr(r) ==
    /\ cliPc[r] = "mkdir"
    /\ cliPc' = [cliPc EXCEPT ![r] = "fatal"]
    /\ UNCHANGED <<now, outDirs, cliCfg, exitCodes, outputDir, urlsLeft, loaded,
                   successCount, errorCount, fetches>>
    /\ UNCHANGED otherVars

\* Number of http.Get calls made for a URL: one in processURL and, when
\* that succeeded, one more for the metadata.
GetsOf(outcome) == IF outcome = "process_err" THEN 1 ELSE 2

\* os.WriteFile into the directory named t: the file of that name is
\* replaced.
WriteFile(t, name, r) ==
    [outDirs EXCEPT ![t].files =
        {f \in @ : f.name # name} \cup {[name |-> name, by |-> r]}]

\* Variant: a failed write is logged without being counted.
ProcessURL_Uncounted(r, outcome) ==
    /\ cliPc[r] = "loop"
    /\ urlsLeft[r] # <<>>
    /\ urlsLeft' = [urlsLeft EXCEPT ![r] = Tail(@)]
    /\ fetches' = [fetches EXCEPT ![r] = @ + GetsOf(outcome)]
    /\ IF outcome = "ok"
       THEN /\ outDirs' = WriteFile(outputDir[r], getSanitizedTitle(Head(urlsLeft[r])), r)
            /\ successCount' = [successCount EXCEPT ![r] = @ + 1]
            /\ UNCHANGED errorCount
       ELSE /\ errorCount' = [errorCount EXCEPT ![r] =
                                 IF outcome = "write_err" THEN @ ELSE @ + 1]
            /\ UNCHANGED <<outDirs, successCount>>
    /\ UNCHANGED <<now, cliPc, cliCfg, exitCodes, outputDir, loaded>>
    /\ UNCHANGED otherVars

\* One iteration of the loop over urls: the URL is converted and written
\* and successCount is incremented, or one of the five failures is logged,
\* errorCount is incremented and the loop continues.
ProcessURL(r, outcome) ==
    /\ cliPc[r] = "loop"
    /\ urlsLeft[r] # <<>>
    /\ urlsLeft' = [urlsLeft EXCEPT ![r] = Tail(@)]
    /\ fetches' = [fetches EXCEPT ![r] = @ + GetsOf(outcome)]
    /\ IF outcome = "ok"
       THEN /\ outDirs' = WriteFile(outputDir[r], getSanitizedTitle(Head(urlsLeft[r])), r)
            /\ successCount' = [successCount EXCEPT ![r] = @ + 1]
            /\ UNCHANGED errorCount
       ELSE /\ errorCount' = [errorCount EXCEPT ![r] = @ + 1]
            /\ UNCHANGED <<outDirs, successCount>>
    /\ UNCHANGED <<now, cliPc, cliCfg, exitCodes, outputDir, loaded>>
    /\ UNCHANGED otherVars

\* The loop has gone through every URL: runConvert returns.
Finish(r) ==
    /\ cliPc[r] = "loop"
    /\ urlsLeft[r] = <<>>
    /\ cliPc' = [cliPc EXCEPT ![r] = "done"]
    /\ UNCHANGED <<now, outDirs, cliCfg, exitCodes, outputDir, urlsLeft, loaded,
                   successCount, errorCount, fetches>>
    /\ UNCHANGED otherVars

\* A second passes.
Tick ==
    /\ now < MaxTime
    /\ now' = now + 1
    /\ UNCHANGED <<outDirs, cliPc, cliCfg, exitCodes, outputDir, urlsLeft, loaded,
                   successCount, errorCount, fetches>>
    /\ UNCHANGED otherVars

\* The runs R of the convert command.
CLINext(R) ==
    \/ \E r \in R, file \in FileSettings, sel \in SelectorSettings : Invoke(r, file, sel)
    \/ \E r \in R : ValidateFail(r)
    \/ \E r \in R : ValidateOk(r)
    \/ \E r \in R : CreateRunOutputDir(r)
    \/ \E r \in R : CreateRunOutputDirErr(r)
    \/ \E r \in R, outcome \in Outcomes : ProcessURL(r, outcome)
    \/ \E r \in R : Finish(r)

\* MaxRuns runs of the convert command with the same parent directory.
NextCLI == CLINext(Runs) \/ Tick

SpecCLI == Init /\ [][NextCLI]_vars

\* One run of the convert command next to the deployment with one client
\* connection: the two places where a batch of URLs is processed.
NextBatch ==
    \/ CLINext({1})
    \/ GatewayNext
    \/ HandlerNext({1}, BasicMessages)
    \/ WorkerNext

SpecBatch == Init /\ [][NextBatch]_vars

\* ---------------------------------------------------------- worker shutdown
notSigVars == <<gwVars, connVars, workerVars, histVars, envVars, dlVars, cliVars, fnVars>>

\* SIGINT or SIGTERM arrives at the process of a running worker:
\* signal.Notify has registered sigs, a channel with room for one signal,
\* so the signal is queued there instead of ending the process.  A signal
\* that finds the channel full is dropped.
Signal(w) ==
    /\ w \in Consumers
    /\ sigs[w] = 0
    /\ sigs' = [sigs EXCEPT ![w] = 1]
    /\ UNCHANGED mainPc
    /\ UNCHANGED notSigVars

\* <-sigs returns in main; "Shutting down worker..." is logged and main
\* goes on to <-forever, a receive from a nil channel.  The consumer
\* goroutine is not told anything.
MainShutdown(w) ==
    /\ mainPc[w] = "sigwait"
    /\ sigs[w] = 1
    /\ sigs' = [sigs EXCEPT ![w] = 0]
    /\ mainPc' = [mainPc EXCEPT ![w] = "forever"]
    /\ UNCHANGED notSigVars

\* The deployment with one client connection and signals sent to the
\* workers.
NextSignal ==
    \/ GatewayNext
    \/ HandlerNext({1}, BasicMessages)
    \/ WorkerNext
    \/ \E w \in Workers : Signal(w)
    \/ \E w \in Workers : MainShutdown(w)

SpecSignal == Init /\ [][NextSignal]_vars

\* The main goroutine of a worker runs when a signal is waiting for it.
FairSpecSignal ==
    /\ SpecSignal
    /\ WorkerFairness
    /\ GatewayFairness
    /\ \A w \in Workers : WF_vars(MainShutdown(w))

\* -------------------------------------------------------- SanitizeFilename
\* Characters of the arguments: an upper-case and a lower-case letter, a
\* digit, the space, the underscore and a punctuation mark.
SanitizeChars == {"M", "d", "1", " ", "_", "!"}

\* Every string of at most MaxLen of these characters.
SanitizeInputs == UNION {[1..n -> SanitizeChars] : n \in 0..MaxLen}

InitSanitize ==
    /\ gwUp = [g \in Gateways |-> TRUE]
    /\ rabbitMQClient = [g \in Gateways |-> "connected"]
    /\ lstPc = [g \in Gateways |-> "recv"]
    /\ wPc = [w \in Workers |-> "wait"]
    /\ InitRest
    /\ sanIn \in SanitizeInputs
    /\ sanOut = <<>>
    /\ sanAgain = <<>>
    /\ sanPc = "call"

notFnVars == <<gwVars, connVars, workerVars, histVars, envVars, dlVars, cliVars, sigVars>>

\* SanitizeFilename(s) for the argument drawn.
SanitizeOnce ==
    /\ sanPc = "call"
    /\ sanOut' = SanitizeFilename(sanIn)
    /\ sanPc' = "once"
    /\ UNCHANGED <<sanIn, sanAgain>>
    /\ UNCHANGED notFnVars

\* SanitizeFilename applied to its own result.
SanitizeTwice ==
    /\ sanPc = "once"
    /\ sanAgain' = SanitizeFilename(sanOut)
    /\ sanPc' = "twice"
    /\ UNCHANGED <<sanIn, sanOut>>
    /\ UNCHANGED notFnVars

NextSanitize == SanitizeOnce \/ SanitizeTwice

SpecSanitize == InitSanitize /\ [][NextSanitize]_vars

\* ------------------------------------------------------------------ claims
HasFrame(c, kind) == \E i \in 1..Len(sent[c]) : sent[c][i].kind = kind

CompletedCount(c) == Cardinality({i \in 1..Len(sent[c]) : sent[c][i].kind = "completed"})

\* The id was inserted into the registry of the gateway that accepted the
\* connection it was assigned to.
RegisteredOnSubmitter(id) ==
    \E c \in Conns : downloadID[c] = id /\ <<hGw[c], id>> \in everRegistered

QueuedIDs == JobIDs(jobQueue)

ClaimedIDs == UNION {JobIDs(Unsettled(w)) : w \in Workers}

\* C1: every job that is in the queue, claimed by a worker, or settled
\* (published, acknowledged, rejected) carries an id that was registered on
\* the submitting gateway before: registration precedes the enqueue.
C1_RegisteredBeforeEnqueue ==
    \A id \in enqueued \cup QueuedIDs \cup ClaimedIDs \cup published \cup acked \cup rejected :
        RegisteredOnSubmitter(id)

\* C1 witness: a worker has executed a claimed job and is about to settle it.
C1_Witness == \E w \in Workers : wPc[w] = "ack" /\ WJob(w).DownloadID \in enqueued

\* C2: every acknowledged job has a Summary that was published on the
\* results exchange, also when publishResults fails.
C2_AckedOnlyAfterPublished == acked \subseteq published

\* C3 (as claimed): a job whose claim was lost by a worker crash is
\* eventually executed again.
C3_LostJobReexecuted == \A id \in IDs : (id \in lost) ~> (id \notin lost)

\* C3 (amended): a job whose claim was lost by a worker crash is eventually
\* redelivered and then executed again, or rejected without requeue because
\* the converter for it could not be created.
C3_LostJobReexecutedOrRejected ==
    \A id \in IDs : (id \in lost) ~> (id \notin lost \/ id \in rejected)

\* C3 witness: after a crash the job was executed again by a worker.
C3_Witness == crashes > 0 /\ lost = {} /\ \E w \in Workers : wPc[w] = "publish"

\* C4: a connection is sent at most one completion message, also when the
\* Summary is published again after a redelivery, and once the listener has
\* left the critical section of a delivery the entry is gone.
C4_DeliveredAtMostOnce ==
    \A c \in Conns :
        /\ CompletedCount(c) <= 1
        /\ (HasFrame(c, "completed")
              /\ ~(lstPc[hGw[c]] = "delete" /\ lstSummary[hGw[c]].DownloadID = downloadID[c]))
           => clients[hGw[c]][downloadID[c]] = 0

\* C4 witness: the completion was sent, and the listener of the same gateway
\* holds a second Summary for the same job.
C4_Witness ==
    \E c \in Conns :
        /\ HasFrame(c, "completed")
        /\ lstPc[hGw[c]] = "lock"
        /\ lstSummary[hGw[c]].DownloadID = downloadID[c]

InvalidSubmission(c) ==
    downloadID[c] # NoID /\ (req[c].URLs = <<>> \/ req[c].Selector = "")

\* C5: a submission with an empty URL list or an empty selector is neither
\* registered nor published.
C5_InvalidSubmissionRejected ==
    \A c \in Conns :
        InvalidSubmission(c) =>
            /\ <<hGw[c], downloadID[c]>> \notin everRegistered
            /\ downloadID[c] \notin enqueued

\* C6: after a failed PublishJob the handler has sent an error frame and no
\* acknowledgment, and the registry holds no entry for the job id.
C6_NoEntryAfterEnqueueFailure ==
    \A c \in Conns :
        (hPc[c] = "done" /\ HasFrame(c, "close_1011")) =>
            /\ ~HasFrame(c, "ack")
            /\ clients[hGw[c]][downloadID[c]] = 0

\* C7: no registry entry refers to a connection its client has closed.
C7_NoEntryForClosedConnection ==
    \A g \in Gateways, id \in IDs :
        clients[g][id] # 0 => ~clientClosed[clients[g][id]]

\* C8: the listener does not hold clientsMutex while it writes the
\* completion message.
C8_NoLockAcrossWrite ==
    \A g \in Gateways : lstPc[g] = "write" => clientsMutex[g] = NoHolder

\* Activities of gateway g that are inside a registry critical section.
InCriticalSection(g) ==
    {<<"handler", c>> : c \in {d \in Conns : hGw[d] = g /\ hPc[d] = "insert"}}
    \cup {<<"close", c>> : c \in {d \in Conns : hGw[d] = g /\ closeHandler[d] = "locked"}}
    \cup (IF lstPc[g] \in {"write", "delete"} THEN {<<"listener", 0>>} ELSE {})

\* C9: at most one activity is inside a registry critical section, it is
\* the holder of clientsMutex, and the registry changes only in a step of
\* the holder.
C9_RegistrySerialized ==
    /\ [](\A g \in Gateways :
            /\ Cardinality(InCriticalSection(g)) <= 1
            /\ \A a \in InCriticalSection(g) : clientsMutex[g] = a)
    /\ [][\A g \in Gateways :
            clients'[g] # clients[g] =>
                /\ clientsMutex[g] # NoHolder
                /\ clientsMutex[g] \in InCriticalSection(g)
                /\ clientsMutex'[g] = NoHolder]_vars

\* C9 witness: one handler is inside the critical section while another
\* handler of the same gateway waits for the lock.
C9_Witness ==
    \E c, d \in Conns :
        c # d /\ hGw[c] = hGw[d] /\ hPc[c] = "insert" /\ hPc[d] = "lock"

\* C10: every completion message on a connection carries the id of the job
\* that connection submitted, and a completion is written only to the
\* connection registered under that id at that moment: once deregistered,
\* the Summary reaches no connection.
C10_OnlyToSubmitter ==
    /\ [](\A c \in Conns : \A i \in 1..Len(sent[c]) :
            sent[c][i].kind = "completed" => sent[c][i].id = downloadID[c])
    /\ [][\A c \in Conns :
            CompletedCount(c)' # CompletedCount(c) =>
                /\ downloadID[c] # NoID
                /\ clients[hGw[c]][downloadID[c]] = c
                /\ lstSummary[hGw[c]].DownloadID = downloadID[c]]_vars

\* C10 witness: the close handler deregistered a connection, its Summary
\* was published and consumed by its gateway without a completion message,
\* while another connection is registered on the same gateway.
C10_Witness ==
    \E c, d \in Conns :
        /\ c # d /\ hGw[c] = hGw[d]
        /\ closeHandler[c] = "ran"
        /\ downloadID[c] \in acked \cap published
        /\ resultsQ[hGw[c]] = <<>> /\ lstPc[hGw[c]] = "recv"
        /\ ~HasFrame(c, "completed")
        /\ downloadID[d] # NoID
        /\ clients[hGw[d]][downloadID[d]] = d

\* C11: no two submissions carry the same job id, whichever gateways took
\* them; a registration is made under a key that holds no entry; and a job
\* id is registered on at most one gateway at a time, so a Summary matches
\* at most one live registration.
C11_FreshIDs ==
    /\ [](\A c, d \in Conns :
            (c # d /\ downloadID[c] # NoID) => downloadID[c] # downloadID[d])
    /\ [](\A id \in IDs : Cardinality({g \in Gateways : clients[g][id] # 0}) <= 1)
    /\ [][\A c \in Conns :
            (hPc[c] = "insert" /\ hPc'[c] # "insert") =>
                clients[hGw[c]][downloadID[c]] = 0]_vars

\* C11 witness: two gateways hold one live registration each, and one of
\* them looks up the Summary of the job registered on the other.
C11_Witness ==
    \E c, d \in Conns :
        /\ hGw[c] # hGw[d]
        /\ downloadID[c] # NoID /\ downloadID[d] # NoID
        /\ clients[hGw[c]][downloadID[c]] = c
        /\ clients[hGw[d]][downloadID[d]] = d
        /\ lstPc[hGw[d]] = "lock"
        /\ lstSummary[hGw[d]].DownloadID = downloadID[c]

\* C12: a Summary whose job id has no entry in the registry of the gateway
\* that received it is dropped: nothing is written to any connection, no
\* registry changes, and the listener of that gateway is back at the next
\* message; no listener ever stops.
C12_MissIsSilent ==
    /\ [](\A g \in Gateways : lstPc[g] \in ListenerRunning)
    /\ [][\A g \in Gateways :
            (lstPc[g] = "lock" /\ lstPc'[g] # "lock"
               /\ clients[g][lstSummary[g].DownloadID] = 0) =>
                /\ sent' = sent
                /\ clients' = clients
                /\ lstPc'[g] = "recv"]_vars

\* C12 witness: the gateway without the connection has consumed and dropped
\* the Summary of a job that is still registered on the other gateway.
C12_Witness ==
    \E c \in Conns :
        /\ downloadID[c] \in published
        /\ clients[hGw[c]][downloadID[c]] = c
        /\ \E g \in Gateways \ {hGw[c]} :
              resultsQ[g] = <<>> /\ lstPc[g] = "recv"

FailedCompletion(c) ==
    \E i \in 1..Len(sent[c]) : sent[c][i].kind = "completed" /\ ~sent[c][i].ok

\* C13: when the listener leaves the critical section of a delivery the
\* entry is gone, whether the write succeeded or failed; a connection whose
\* completion write failed is never written to again, also when a second
\* Summary for the job arrives.
C13_EntryRemovedAfterAttempt ==
    /\ [][\A g \in Gateways :
            (lstPc[g] = "delete" /\ lstPc'[g] # "delete") =>
                clients'[g][lstSummary[g].DownloadID] = 0]_vars
    /\ [](\A c \in Conns :
            FailedCompletion(c) =>
                /\ CompletedCount(c) = 1
                /\ (lstPc[hGw[c]] # "delete" => clients[hGw[c]][downloadID[c]] = 0))

\* C13 witness: the completion write to a closed connection failed, and
\* the listener of the same gateway looks up a second Summary for that job.
C13_Witness ==
    \E c \in Conns :
        /\ FailedCompletion(c)
        /\ lstPc[hGw[c]] = "lock"
        /\ lstSummary[hGw[c]].DownloadID = downloadID[c]

\* C14: a Summary that does not decode is skipped: the listener is at the
\* next message with the registry and every connection untouched, its loop
\* never ends, and every message that is in its queue afterwards is
\* consumed.
C14_MalformedSummarySkipped ==
    /\ [](\A g \in Gateways : skipped[g] > 0 => lstPc[g] \in ListenerRunning)
    /\ [][\A g \in Gateways :
            skipped'[g] # skipped[g] =>
                /\ lstPc'[g] = "recv"
                /\ clients' = clients
                /\ sent' = sent
                /\ resultsQ'[g] = Tail(resultsQ[g])]_vars
    /\ \A g \in Gateways :
            (skipped[g] > 0 /\ resultsQ[g] # <<>>) ~> (resultsQ[g] = <<>>)

\* C14 witness: a listener that skipped an undecodable Summary is writing
\* the completion message of a Summary it received later.
C14_Witness ==
    \E g \in Gateways : skipped[g] > 0 /\ lstPc[g] = "write"

\* Number of undecodable messages in a sequence of job deliveries.
PoisonCount(ds) == Cardinality({i \in 1..Len(ds) : ~ds[i].wellformed})

RECURSIVE SumOver(_, _)
SumOver(f, S) ==
    IF S = {} THEN 0
    ELSE LET x == CHOOSE y \in S : TRUE IN f[x] + SumOver(f, S \ {x})

\* C15: every undecodable job message is either still waiting or was
\* rejected exactly once; the rejection puts nothing back into the queue,
\* no worker ever works on such a message, and the worker that rejected it
\* is waiting for the next message.
C15_MalformedJobRejectedOnce ==
    /\ [](SumOver(jobRejects, Workers) + PoisonCount(jobQueue)
             + SumOver([w \in Workers |-> PoisonCount(wBuffer[w])], Workers) = foreignJobs)
    /\ [](\A w \in Workers : wDelivery[w] # NoMsg => wDelivery[w].wellformed)
    /\ [][\A w \in Workers :
            jobRejects'[w] # jobRejects[w] =>
                /\ jobRejects'[w] = jobRejects[w] + 1
                /\ jobQueue' = jobQueue
                /\ wPc'[w] = "wait" /\ wDelivery'[w] = NoMsg /\ Unacked(w)' = 0]_vars

\* C15 witness: a worker that rejected an undecodable message works on a
\* job it received afterwards.
C15_Witness ==
    \E w \in Workers : jobRejects[w] > 0 /\ wPc[w] = "publish"

\* C16: a job rejected because its converter could not be created is not
\* in the queue, not held by a worker, not executed, not published and not
\* acknowledged; the rejection leaves the queue and the results exchange
\* alone and the worker waits for the next message.
C16_SetupFailureRejected ==
    /\ [](\A id \in rejected :
            id \notin QueuedIDs \cup ClaimedIDs \cup published \cup acked)
    /\ [][rejected' # rejected =>
            /\ jobQueue' = jobQueue
            /\ resultsQ' = resultsQ
            /\ published' = published
            /\ \E w \in Workers :
                  /\ wPc[w] = "newconverter" /\ wPc'[w] = "wait"
                  /\ WJob(w).DownloadID \in rejected'
                  /\ Unacked(w)' = 0]_vars

\* C16 witness: after the rejection of a job the broker has delivered the
\* next message of the queue to a worker.
C16_Witness ==
    rejected # {} /\ \E w \in Workers : wBuffer[w] # <<>>

\* C17: a worker never has more than one delivery that is neither
\* acknowledged nor rejected, and it is given a delivery only when it has
\* none.
C17_OneUnsettledJob ==
    /\ [](\A w \in Workers : Unacked(w) <= 1)
    /\ [][\A w \in Workers : Unacked(w)' > Unacked(w) => Unacked(w) = 0]_vars

\* C17 witness: a worker is at work on a job while another message waits in
\* the queue.
C17_Witness ==
    \E w \in Workers : wDelivery[w] # NoMsg /\ jobQueue # <<>>

\* C18: a client whose job was enqueued and that stays connected is
\* eventually sent the completion message of that job.
C18_ConnectedClientGetsCompletion ==
    \A c \in Conns :
        (downloadID[c] # NoID /\ downloadID[c] \in enqueued)
            ~> (HasFrame(c, "completed") \/ clientClosed[c])

\* C19: when a worker publishes a Summary, the gateway that holds the
\* registration of the Summary's job id receives it.
C19_HolderReceivesSummary ==
    [][\A w \in Workers :
         (wPc[w] = "publish" /\ wPc'[w] = "ack" /\ published' # published) =>
             \A g \in Gateways :
                 clients[g][wSummary[w].DownloadID] # 0 => resultsQ'[g] # resultsQ[g]]_vars

\* C20: whenever a handler of a gateway has accepted a submission and is
\* registering, publishing or acknowledging it, the listener of that
\* gateway is subscribed and in its loop.
C20_ListenerWhileAccepting ==
    \A c \in Conns :
        hPc[c] \in {"lock", "insert", "publish", "ack"} =>
            lstPc[hGw[c]] \in ListenerRunning

\* The acknowledgment reached the client: it was connected after its job
\* was enqueued.
AckDelivered(c) ==
    \E i \in 1..Len(sent[c]) : sent[c][i].kind = "ack" /\ sent[c][i].ok

\* C21: the Summary of a job whose client disconnected after the enqueue
\* is dropped by every gateway: no listener finds a registration, and goes
\* on to write, for a connection that took its acknowledgment and has
\* closed since.
C21_SummaryOfClosedClientDiscarded ==
    [][\A g \in Gateways :
         (lstPc[g] = "lock" /\ lstPc'[g] = "write") =>
             ~(AckDelivered(lstConn'[g]) /\ clientClosed[lstConn'[g]])]_vars

\* C22: a connection that was sent the invalid-request error has no job id
\* and no other frame, its handler has returned, and no registry holds it;
\* the step that reports the error changes neither a registry nor the job
\* queue.
C22_UnparseableSubmissionRejected ==
    /\ [](\A c \in Conns :
            HasFrame(c, "error_text") =>
                /\ downloadID[c] = NoID
                /\ Len(sent[c]) = 1
                /\ hPc[c] = "done"
                /\ \A g \in Gateways, id \in IDs : clients[g][id] # c)
    /\ [][\A c \in Conns :
            (~HasFrame(c, "error_text") /\ HasFrame(c, "error_text")') =>
                /\ clients' = clients
                /\ jobQueue' = jobQueue
                /\ enqueued' = enqueued
                /\ usedIDs' = usedIDs]_vars

\* C22 witness: the handler of an unparseable submission has returned after
\* the error frame.
C22_Witness ==
    \E c \in Conns : HasFrame(c, "error_text") /\ hPc[c] = "done" /\ jobQueue = <<>>

\* C23: an acknowledgment is on a connection only if the job of that
\* connection was enqueued, and acknowledgment and completion message of a
\* connection both carry the id of that job.
C23_AckAfterPublishSameID ==
    \A c \in Conns :
        /\ \A i \in 1..Len(sent[c]) :
              sent[c][i].kind \in {"ack", "completed"} =>
                  /\ sent[c][i].id = downloadID[c]
                  /\ downloadID[c] \in enqueued
        /\ \A i, j \in 1..Len(sent[c]) :
              (sent[c][i].kind = "ack" /\ sent[c][j].kind = "completed") =>
                  sent[c][i].id = sent[c][j].id

\* C23 witness: one connection has its acknowledgment and its completion
\* message while another connection was acknowledged a different job.
C23_Witness ==
    \E c, d \in Conns :
        /\ c # d
        /\ HasFrame(c, "ack") /\ HasFrame(c, "completed")
        /\ HasFrame(d, "ack") /\ downloadID[d] # downloadID[c]

\* C24: an acknowledged connection stays registered until its completion
\* message was written or the close handler ran, the handler sends no close
\* frame on it, and an entry leaves the registry only in the delete of a
\* delivery or of the close handler.
C24_EntryKeptAfterAck ==
    /\ [](\A c \in Conns :
            HasFrame(c, "ack") =>
                /\ ~HasFrame(c, "close_1011")
                /\ (~HasFrame(c, "completed") /\ closeHandler[c] # "ran")
                      => clients[hGw[c]][downloadID[c]] = c)
    /\ [][\A c \in Conns :
            (downloadID[c] # NoID
               /\ clients[hGw[c]][downloadID[c]] = c
               /\ clients'[hGw[c]][downloadID[c]] = 0) =>
                \/ lstPc[hGw[c]] = "delete" /\ lstConn[hGw[c]] = c
                \/ closeHandler[c] = "locked" /\ clientClosed[c]]_vars

\* C24 witness: the handler has returned after the acknowledgment, the
\* connection is registered and open, and the Summary of its job waits in
\* the queue of its gateway.
C24_Witness ==
    \E c \in Conns :
        /\ hPc[c] = "done" /\ HasFrame(c, "ack") /\ ~clientClosed[c]
        /\ clients[hGw[c]][downloadID[c]] = c
        /\ resultsQ[hGw[c]] # <<>>

\* C25: a job that was executed and is about to be acknowledged, or was
\* acknowledged, has had its Summary published, and is never rejected.
C25_ExecutedJobPublishedAndAcked ==
    /\ \A w \in Workers : wPc[w] = "ack" => wSummary[w].DownloadID \in published
    /\ \A id \in acked : id \in published /\ id \notin rejected

\* Processes that ended at startup.
ExitedGateways == {g \in Gateways : lstPc[g] = "exited"}

ExitedWorkers == {w \in Workers : wPc[w] = "exited"}

\* C27: a gateway serves, and has a handler at work, only with a connected
\* broker client; a worker is given a job only after its startup
\* succeeded; a process whose startup failed has ended: it never serves,
\* never holds a job and never comes back.
C27_NoServiceWithoutBroker ==
    /\ [](\A g \in Gateways : gwUp[g] => rabbitMQClient[g] = "connected")
    /\ [](\A c \in Conns :
            hPc[c] \notin {"none", "done"} => rabbitMQClient[hGw[c]] = "connected")
    /\ [](\A g \in ExitedGateways : ~gwUp[g])
    /\ [](\A w \in Workers : wPc[w] \in {"off", "exited"} => Unacked(w) = 0)
    /\ [][/\ \A c \in Conns :
               (hPc[c] = "none" /\ hPc'[c] # "none") => gwUp[hGw'[c]]
           /\ \A w \in Workers : Unacked(w)' > Unacked(w) => w \in Consumers
           /\ ExitedGateways \subseteq ExitedGateways'
           /\ ExitedWorkers \subseteq ExitedWorkers']_vars

\* C27 witness: one gateway and one worker ended at startup without a
\* broker connection while the other gateway took a submission that the
\* other worker executes.
C27_Witness ==
    /\ \E g \in ExitedGateways : rabbitMQClient[g] = "nil"
    /\ ExitedWorkers # {}
    /\ \E w \in Workers : wPc[w] = "publish"

\* The response downloadHandler has just written.
LastResponse == responses'[Len(responses')]

\* C28: a request whose path names a job id for which no artifact
\* directory exists is answered not-found with no archive bytes, and the zip
\* content type and the attachment name <job_id>.zip are set only when the
\* directory exists.
C28_NotFoundWithoutArtifactDir ==
    [][Len(responses') > Len(responses) =>
         /\ (LastResponse.path # NoPath /\ Stat(LastResponse.path) # "dir") =>
               /\ LastResponse.status = 404
               /\ ~LastResponse.archive.streamed
         /\ (LastResponse.contentType = "application/zip" \/ LastResponse.disposition # NoPath) =>
               Stat(LastResponse.path) = "dir"]_vars

\* Number of URLs in the input file: its lines that are not blank.
URLsInFile == Cardinality({i \in DOMAIN InputLines : TrimSpace(InputLines[i]) # ""})

\* The connection that submitted the job with this id.
SubmittedURLs(id) == {req[c].URLs : c \in {d \in Conns : downloadID[d] = id}}

\* C26: every processed batch accounts for each URL exactly once: in a
\* Summary successful + failed equals the total and the total is the number
\* of URLs submitted, and in the loop of the convert command every URL
\* increments exactly one of successCount and errorCount.
C26_EachURLCountedOnce ==
    /\ [](\A w \in Workers : wPc[w] \in {"publish", "ack"} =>
            /\ wSummary[w].Successful + wSummary[w].Failed = wSummary[w].TotalURLs
            /\ \A us \in SubmittedURLs(wSummary[w].DownloadID) :
                  wSummary[w].TotalURLs = Len(us))
    /\ [](\A r \in Runs : cliPc[r] \in {"loop", "done"} /\ outputDir[r] # NoTime =>
            /\ loaded[r] = URLsInFile
            /\ successCount[r] + errorCount[r] + Len(urlsLeft[r]) = loaded[r])
    /\ [][\A r \in Runs : Len(urlsLeft'[r]) < Len(urlsLeft[r]) =>
            /\ Len(urlsLeft'[r]) = Len(urlsLeft[r]) - 1
            /\ \/ /\ successCount'[r] = successCount[r] + 1
                  /\ errorCount'[r] = errorCount[r]
               \/ /\ successCount'[r] = successCount[r]
                  /\ errorCount'[r] = errorCount[r] + 1]_vars

\* A run that went through its whole batch with a success and a failure,
\* and a worker holding the Summary of a submitted job.
C26_Witness ==
    /\ \E r \in Runs : /\ cliPc[r] = "done"
                       /\ successCount[r] = 1
                       /\ errorCount[r] = 1
    /\ \E w \in Workers : /\ wPc[w] = "ack"
                          /\ wSummary[w].TotalURLs = 2
                          /\ SubmittedURLs(wSummary[w].DownloadID) # {}

\* C29: no step removes or replaces a file that a run of the convert
\* command wrote into its run directory, so no run loses output to another
\* run, also when both started within the same second.
C29_RunOutputNeverRemoved ==
    [][\A t \in Times : \A f \in outDirs[t].files : f \in outDirs'[t].files]_vars

\* C30: a run whose file or selector setting is empty, or whose input path
\* does not exist or is a directory, has called exitFunc(1) once validation
\* is over, and has created no output directory and fetched no URL.
C30_InvalidSettingsExitBeforeWork ==
    \A r \in Runs :
        (/\ cliPc[r] \notin {"idle", "validate"}
         /\ \/ cliCfg[r].file = ""
            \/ cliCfg[r].selector = ""
            \/ StatInput(cliCfg[r].file) \in {"absent", "dir"}) =>
            /\ exitCodes[r] = <<1>>
            /\ cliPc[r] = "done"
            /\ outputDir[r] = NoTime
            /\ loaded[r] = 0
            /\ fetches[r] = 0

\* A run given a directory as its input file has exited, next to a run
\* with valid settings that has fetched.
C30_Witness ==
    /\ \E r \in Runs : /\ StatInput(cliCfg[r].file) = "dir"
                       /\ cliCfg[r].selector # ""
                       /\ exitCodes[r] = <<1>>
    /\ \E r \in Runs : /\ cliCfg[r].file = "nofile"
                       /\ exitCodes[r] = <<1>>

\* Runs that have a run directory no other run uses.
RunsWithOwnDir ==
    {r \in Runs : /\ outputDir[r] # NoTime
                  /\ \A q \in Runs \ {r} : outputDir[q] # outputDir[r]}

\* C31: after a run of the convert command its run directory holds exactly
\* one .md file per URL converted successfully: the number of files equals
\* successCount, also when pages of the batch have the same title.
C31_OneFilePerConvertedURL ==
    \A r \in RunsWithOwnDir :
        cliPc[r] = "done" =>
            Cardinality(outDirs[outputDir[r]].files) = successCount[r]

\* The characters a-z, 0-9 and the underscore.
LowerAlnumUnderscore ==
    {"a", "b", "c", "d", "e", "f", "g", "h", "i", "j", "k", "l", "m",
     "n", "o", "p", "q", "r", "s", "t", "u", "v", "w", "x", "y", "z",
     "0", "1", "2", "3", "4", "5", "6", "7", "8", "9", "_"}

\* Number of places of the string s that hold the character ch.
CountChar(ch, s) == Cardinality({i \in DOMAIN s : s[i] = ch})

\* C32: what SanitizeFilename returns is made of a-z, 0-9 and underscore
\* only, has an underscore for every space and every underscore of its
\* argument, and is returned unchanged when sanitized again.
C32_SanitizeFilenameCharsetAndIdempotent ==
    /\ sanPc \in {"once", "twice"} =>
          /\ \A i \in DOMAIN sanOut : sanOut[i] \in LowerAlnumUnderscore
          /\ CountChar("_", sanOut) = CountChar(" ", sanIn) + CountChar("_", sanIn)
          /\ CountChar(" ", sanOut) = 0
    /\ sanPc = "twice" => sanAgain = sanOut

\* An argument with an upper-case letter, a space and a punctuation mark
\* has been sanitized twice.
C32_Witness ==
    /\ sanPc = "twice"
    /\ sanIn = <<"M", " ", "!">>
    /\ sanAgain = <<"m", "_">>

\* C33: on every connection the acknowledgment is written before the
\* completion: a completion frame in what was sent to a connection has the
\* acknowledgment of the same job somewhere before it.
C33_AckBeforeCompletion ==
    \A c \in Conns : \A i \in 1..Len(sent[c]) :
        sent[c][i].kind = "completed" =>
            \E j \in 1..(i - 1) : /\ sent[c][j].kind = "ack"
                                  /\ sent[c][j].id = sent[c][i].id

\* The handler of c has reached conn.WriteJSON(initialLog) and has not
\* returned from it.
HandlerInWrite(c) == hPc[c] = "ack"

\* The listener of g has found c in the registry, has reached
\* conn.WriteJSON(finalResponse) and has not returned from it.
ListenerInWrite(g, c) == lstPc[g] = "write" /\ lstConn[g] = c

\* C34: at most one goroutine is writing to a connection at any time: the
\* handler's write of the acknowledgment and a listener's write of the
\* completion to the same connection are never both under way.
C34_OneWriterPerConnection ==
    \A c \in Conns : \A g \in Gateways : ~(HandlerInWrite(c) /\ ListenerInWrite(g, c))

\* C35: the listener's lookup, write and delete for one Summary are one
\* critical section: from the lookup to the delete the listener holds
\* clientsMutex, the handle it writes to is the one registered under the
\* Summary's id at the moment of the write, and no close handler
\* deregisters between the lookup and the delete.
C35_WriteInsideCriticalSection ==
    /\ [](\A g \in Gateways : lstPc[g] \in {"write", "delete"} =>
            clientsMutex[g] = <<"listener", 0>>)
    /\ [](\A g \in Gateways : lstPc[g] = "write" =>
            /\ lstConn[g] # 0
            /\ clients[g][lstSummary[g].DownloadID] = lstConn[g])
    /\ [][\A c \in Conns :
            (closeHandler[c] = "locked" /\ closeHandler'[c] = "ran") =>
                lstPc[hGw[c]] \notin {"write", "delete"}]_vars

\* The listener is about to write to a connection whose client has closed
\* and whose close handler is waiting for the lock.
C35_Witness ==
    \E g \in Gateways : \E c \in Conns :
        /\ lstPc[g] = "write"
        /\ lstConn[g] = c
        /\ clientClosed[c]
        /\ closeHandler[c] = "armed"

\* The job id of the delivery the loop of w is working on.
HeldID(w) == wDelivery[w].body.DownloadID

\* C36: every message the loop of a worker takes is settled exactly once,
\* by one Ack or by one Reject without requeue and never by both, before the
\* loop takes the next message, and no path through the loop body leaves
\* it unsettled.
C36_ClaimedMessageSettledOnce ==
    /\ [](acked \cap rejected = {})
    /\ [](\A w \in Workers : wPc[w] = "wait" <=> wDelivery[w] = NoMsg)
    /\ [][\A w \in Workers :
            /\ Len(wBuffer'[w]) < Len(wBuffer[w]) =>
                  /\ wDelivery[w] = NoMsg
                  /\ jobQueue' = jobQueue
                  /\ \/ /\ wDelivery'[w] = Head(wBuffer[w])
                        /\ jobRejects'[w] = jobRejects[w]
                     \/ /\ wDelivery'[w] = NoMsg
                        /\ jobRejects'[w] = jobRejects[w] + 1
            /\ (wDelivery[w] # NoMsg /\ wDelivery'[w] # wDelivery[w]) =>
                  /\ wDelivery'[w] = NoMsg
                  /\ jobQueue' = jobQueue
                  /\ HeldID(w) \notin acked \cup rejected
                  /\ \/ /\ acked' = acked \cup {HeldID(w)}
                        /\ rejected' = rejected
                     \/ /\ rejected' = rejected \cup {HeldID(w)}
                        /\ acked' = acked]_vars
    /\ \A w \in Workers : (wDelivery[w] # NoMsg) ~> (wDelivery[w] = NoMsg)

\* One worker has rejected a message that is no job and a job has been
\* acknowledged.
C36_Witness ==
    /\ \E w \in Workers : jobRejects[w] = 1
    /\ acked # {}
    /\ \A w \in Workers : wDelivery[w] = NoMsg

\* C37: once the main goroutine of a worker has received SIGINT or SIGTERM
\* the worker takes no further job from its queue, and the worker process
\* eventually terminates.
C37_SignalStopsWorker ==
    /\ [][\A w \in Workers :
            mainPc[w] = "forever" =>
                ~(wDelivery[w] = NoMsg /\ wDelivery'[w] # NoMsg)]_vars
    /\ \A w \in Workers : (mainPc[w] = "forever") ~> (wPc[w] = "exited")

\* The messages of the job queue that are with the broker or with a worker.
JobsInFlight ==
    {jobQueue[i] : i \in 1..Len(jobQueue)}
    \cup UNION {{wBuffer[w][i] : i \in 1..Len(wBuffer[w])} : w \in Workers}
    \cup {wDelivery[w] : w \in {v \in Workers : wDelivery[v] # NoMsg}}

\* The job decoded from m is the submission of connection c: its URLs in
\* their order, its selector, and the id c was registered under.
IsJobOf(m, c) ==
    /\ ~UnmarshalJob(m).err
    /\ UnmarshalJob(m).job.URLs = req[c].URLs
    /\ UnmarshalJob(m).job.Selector = req[c].Selector
    /\ UnmarshalJob(m).job.DownloadID = downloadID[c]
    /\ <<hGw[c], downloadID[c]>> \in everRegistered

\* The submissions a client can have made.
Submissions == {[URLs |-> m.urls, Selector |-> m.selector] : m \in {n \in AllMessages : n.wellformed}}

\* C38: the job published for a submission carries the submitted URLs in
\* the same order, the submitted selector and the id under which the
\* connection was registered, and the Summary a worker publishes carries
\* the id of the job it executed.
C38_JobAndSummaryCarrySubmission ==
    /\ [](\A c \in Conns : downloadID[c] # NoID => req[c] \in Submissions)
    /\ [](\A m \in JobsInFlight : \E c \in Conns : IsJobOf(m, c))
    /\ [](\A w \in Workers : wPc[w] \in {"publish", "ack"} =>
            wSummary[w].DownloadID = UnmarshalJob(wDelivery[w]).job.DownloadID)
    /\ [][/\ \A c \in Conns :
               (hPc[c] = "publish" /\ hPc'[c] = "ack") =>
                   /\ Len(jobQueue') = Len(jobQueue) + 1
                   /\ IsJobOf(jobQueue'[Len(jobQueue')], c)
          /\ \A w \in Workers : \A g \in Gateways :
               (/\ wPc[w] = "publish"
                /\ wPc'[w] = "ack"
                /\ Len(resultsQ'[g]) > Len(resultsQ[g])) =>
                   resultsQ'[g][Len(resultsQ'[g])].body.DownloadID =
                       UnmarshalJob(wDelivery[w]).job.DownloadID]_vars

\* A worker has published the Summary of a job with two URLs and a
\* selector, submitted on connection 1.
C38_Witness ==
    \E w \in Workers :
        /\ wPc[w] = "ack"
        /\ UnmarshalJob(wDelivery[w]).job =
              [URLs |-> <<"a", "b">>, Selector |-> "#x", DownloadID |-> downloadID[1]]
        /\ wSummary[w].DownloadID = downloadID[1]
        /\ downloadID[1] \in published

====
